---------------------------- MODULE Spec2Model ----------------------------
(*************************************************************************)
(* A model of TikTok-Transcriber: the credential pool (APIKeyManager,     *)
(* app/api_key_manager.py), the retried remote operations of             *)
(* TikTokProcessor (app/processor.py), and the rate limiter, the chunk   *)
(* splitter and the long-video jobs of app/long_processor.py with the    *)
(* routes of app/long_routes.py.                                         *)
(*                                                                       *)
(* Time is the wall clock in whole seconds.  The numeric tunables of the *)
(* source that would make the state space unmanageable are scaled down   *)
(* and named as bounds; the source value is given next to each.          *)
(*************************************************************************)
EXTENDS Integers, Sequences, FiniteSets, TLC

-----------------------------------------------------------------------------
(* Bounds *)

\* MAX_REQUESTS_PER_DAY is 50 in the source (api_key_manager.py:38); scaled.
MAX_REQUESTS_PER_DAY == 2
\* COOLDOWN_PERIOD is 60 seconds in the source (api_key_manager.py:40); scaled.
COOLDOWN_PERIOD == 1
\* Seconds in a calendar day (86400 for datetime.date()); scaled.
SecondsPerDay == 2
\* The clock stops advancing here.
MaxTime == 3
\* mark_key_error is not called on a key whose error_count reached this.
MaxErrors == 3
\* At most this many calls are made on one APIKeyManager.
MaxCalls == 6
\* timedelta(minutes=1) is 60 seconds in the source; scaled.
Minute == 2
\* RateLimiter(requests_per_minute, tokens_per_minute) is configured with
\* values up to these (the defaults are 15 and 32000).
MaxRequestsPerMinute == 2
MaxTokensPerMinute == 3
\* wait_for_quota(estimated_tokens) is called with values up to this (the
\* callers pass 1000).
MaxEstimatedTokens == 2
\* At most this many wait_for_quota calls are made on one RateLimiter.
MaxGrants == 4
\* At most this many operations are started on one TikTokProcessor.
MaxOps == 2
\* RateLimiter() is constructed with its defaults, 15 requests and 32000
\* tokens (32 calls of 1000 tokens) a minute; scaled.
DefaultRequestsPerMinute == 3
DefaultTokensPerMinute == 3
\* Milliseconds in a second (1000); scaled.
MsPerSecond == 2
\* split_audio's chunk_duration is 60 seconds; scaled.
chunk_duration == 1
\* The audio handed to process_long_video, all jobs together, is at most this
\* long, in milliseconds (extract_audio refuses more than 300 seconds each).
MaxAudioMs == 6
\* At most this many remote calls of the long-video jobs fail.
MaxFailures == 3
\* At most this many callbacks wait in the event loop's queue.
MaxReady == 3

(* Program constants *)

ERROR_THRESHOLD == 3

\* None, for a timestamp field that is unset; below every real timestamp,
\* as datetime.min is in get_next_key's sort key.
NoTime == -1

\* The pools the environment can configure (GOOGLE_API_KEY_1..3 with the
\* unset ones dropped), each in list order.
Pools == {<<"k1">>, <<"k1", "k2">>}

\* get_next_key returning None.
None == "None"

-----------------------------------------------------------------------------
(* Error messages, as sequences of characters. *)

UpperCase == <<"A","B","C","D","E","F","G","H","I","J","K","L","M",
               "N","O","P","Q","R","S","T","U","V","W","X","Y","Z">>
LowerCase == <<"a","b","c","d","e","f","g","h","i","j","k","l","m",
               "n","o","p","q","r","s","t","u","v","w","x","y","z">>

\* str.lower() on one character.
LowerChar(c) ==
    IF \E i \in 1..Len(UpperCase) : UpperCase[i] = c
    THEN LowerCase[CHOOSE i \in 1..Len(UpperCase) : UpperCase[i] = c]
    ELSE c

\* str.lower()
Lower(s) == [i \in 1..Len(s) |-> LowerChar(s[i])]

\* needle in s  (Python substring test)
Contains(needle, s) ==
    \E i \in 0..(Len(s) - Len(needle)) :
        \A j \in 1..Len(needle) : s[i + j] = needle[j]

QuotaNeedle == <<"q","u","o","t","a"," ","e","x","c","e","e","d","e","d">>

\* The messages the remote API's exceptions carry, by index:
\*  1 "quota exceeded"   2 "429 Quota EXCEEDED"   3 "timeout"   4 "quota"
Messages == <<
    <<"q","u","o","t","a"," ","e","x","c","e","e","d","e","d">>,
    <<"4","2","9"," ","Q","u","o","t","a"," ","E","X","C","E","E","D","E","D">>,
    <<"t","i","m","e","o","u","t">>,
    <<"q","u","o","t","a">> >>

MsgIds == 1..Len(Messages)

\* The messages that say "quota exceeded" in some letter case, by reading them.
QuotaMsgIds == {1, 2}

\* The condition of mark_key_error's  if "quota exceeded" in error_message.lower()
IsQuotaMessage(m) == Contains(QuotaNeedle, Lower(Messages[m]))

-----------------------------------------------------------------------------
VARIABLES
    clock,        \* datetime.now(), in seconds
    api_keys,     \* APIKeyManager.api_keys: the pool, in list order
    key_states,   \* APIKeyManager.key_states: key -> record
    current_api_key, \* TikTokProcessor.current_api_key: the key in use
    ret,          \* what the last step returned, if it was a get_next_key
    \* history variables, read by the properties only
    capped_day,   \* key -> day on which requests_today was last written >= cap
    quota_day,    \* key -> day of the last quota-exceeded error reported
    calls,        \* the number of calls made so far (bounds the run)
    burst         \* key -> the latest run of non-quota errors reported on one
                  \*        day within COOLDOWN_PERIOD: [first, n]

keyVars == <<api_keys, key_states, current_api_key, ret,
             capped_day, quota_day, burst, calls>>

VARIABLES
    requests_per_minute,  \* RateLimiter.requests_per_minute
    tokens_per_minute,    \* RateLimiter.tokens_per_minute
    requests_queue,       \* RateLimiter.requests_queue: timestamps
    tokens_used,          \* RateLimiter.tokens_used
    last_reset,           \* RateLimiter.last_reset
    waiter,               \* caller -> where its wait_for_quota call stands
    \* history variable, read by the properties only
    grants                \* the calls granted so far: [at, tokens]

limVars == <<requests_per_minute, tokens_per_minute, requests_queue,
             tokens_used, last_reset, waiter, grants>>

VARIABLES
    proc_pc,        \* where the TikTokProcessor stands: "new", "idle", "calling"
    proc_op,        \* the operation in progress, or the last one
    attempt,        \* _process_with_retry's loop variable
    outcome,        \* how the last operation ended
    \* history variables, read by the properties only
    remote_calls,   \* model.generate_content calls of the operation so far
    day_calls,      \* those of them made on the day of the latest one
    quota_failed,   \* <<key, day>> of the operation's quota-exceeded failures
    ops             \* the number of operations started (bounds the run)

procVars == <<proc_pc, proc_op, attempt, outcome, remote_calls, day_calls, quota_failed,
              ops>>

VARIABLES
    summary_pc,     \* task -> where its LongVideoProcessor.generate_summary
                    \*         call stands: "idle", "waiting", "calling"
    summary_result  \* task -> how its last generate_summary call ended

sumVars == <<summary_pc, summary_result>>

VARIABLES
    job,                 \* task -> where its process_long_video call stands
    processing_results,  \* LongVideoProcessor.processing_results, by request
    files,               \* the files that exist: path -> content
    failures             \* the remote failures of the jobs so far (bounds
                         \* the run)

jobVars == <<job, processing_results, files, failures>>

VARIABLES
    response             \* what the last request to a route was answered

routeVars == <<response>>

VARIABLES
    ready,               \* the event loop's queue of callbacks that can run:
                         \* first steps of tasks and request handlers
    \* history variable, read by the properties only
    told                 \* the request ids POST /process-long has returned

loopVars == <<ready, told>>

vars == <<clock, keyVars, limVars, procVars, sumVars, jobVars, routeVars,
          loopVars>>

KeySet == {api_keys[i] : i \in 1..Len(api_keys)}

\* now.date()
Date(t) == t \div SecondsPerDay

\* timedelta.seconds: the seconds component, the whole days dropped.
TimedeltaSeconds(d) == d % SecondsPerDay

InitialKeyState ==
    [last_used |-> NoTime, error_count |-> 0, quota_reset |-> NoTime,
     available |-> TRUE, requests_today |-> 0, last_error |-> NoTime]

-----------------------------------------------------------------------------
(* _is_key_available: the state it leaves and the value it returns. *)

\* lines 48-52: the daily rollover
RolloverKeepsFlag(s, now) ==
    IF s.quota_reset = NoTime \/ Date(now) > Date(s.quota_reset)
    THEN [s EXCEPT !.quota_reset = now, !.requests_today = 0,
                   !.error_count = 0]
    ELSE s
Rollover(s, now) ==
    IF s.quota_reset = NoTime \/ Date(now) > Date(s.quota_reset)
    THEN [s EXCEPT !.quota_reset = now, !.requests_today = 0,
                   !.error_count = 0, !.available = TRUE]
    ELSE s

\* lines 55-56
OverDailyCapOneTooMany(s) == s.requests_today > MAX_REQUESTS_PER_DAY
OverDailyCap(s) == s.requests_today >= MAX_REQUESTS_PER_DAY

\* lines 59-61
InCooldown(s, now) ==
    /\ s.error_count >= ERROR_THRESHOLD
    /\ s.last_error # NoTime
    /\ TimedeltaSeconds(now - s.last_error) < COOLDOWN_PERIOD

\* The key's state after _is_key_available(key) ran at time now.
CheckedState(s, now) ==
    LET r == Rollover(s, now) IN
    IF OverDailyCap(r) THEN r
    ELSE IF r.error_count >= ERROR_THRESHOLD
         THEN IF InCooldown(r, now) THEN r
              ELSE [r EXCEPT !.error_count = 0]
         ELSE r

\* The value _is_key_available(key) returns at time now.
IsKeyAvailable(s, now) ==
    LET r == Rollover(s, now) IN
    IF OverDailyCap(r) THEN FALSE
    ELSE IF InCooldown(r, now) THEN FALSE
    ELSE r.available

-----------------------------------------------------------------------------
(* get_next_key *)

\* The sort key of min(): (requests_today, last_used or datetime.min)
TupleLess(a, b) == a[1] < b[1] \/ (a[1] = b[1] /\ a[2] < b[2])

SortKeyMostUsed(s) == <<0 - s.requests_today, s.last_used>>
SortKeyNoTieBreak(s) == <<s.requests_today, 0>>
SortKey(s) == <<s.requests_today, s.last_used>>

\* min(available_keys, key=...): the first key in list order that no
\* available key is strictly below.
MinKey(avail, st) ==
    LET idx == {i \in 1..Len(api_keys) :
                   /\ api_keys[i] \in avail
                   /\ \A k \in avail :
                        ~TupleLess(SortKey(st[k]), SortKey(st[api_keys[i]]))}
        first == CHOOSE i \in idx : \A j \in idx : i <= j
    IN api_keys[first]

\* lines 87-88: the update of the selected key
SelectedNoStamp(s, now) == [s EXCEPT !.requests_today = @ + 1]
Selected(s, now) == [s EXCEPT !.last_used = now, !.requests_today = @ + 1]

GetNextKey ==
    LET now == clock
        checked == [k \in KeySet |-> CheckedState(key_states[k], now)]
        available_keys == {k \in KeySet : IsKeyAvailable(key_states[k], now)}
    IN
    /\ IF available_keys = {}
       THEN /\ ret' = None
            /\ key_states' = checked
            /\ capped_day' = capped_day
            /\ current_api_key' = current_api_key
       ELSE LET selected_key == MinKey(available_keys, checked) IN
            /\ ret' = selected_key
            /\ current_api_key' = selected_key
            /\ key_states' =
                  [checked EXCEPT ![selected_key] = Selected(@, now)]
            /\ capped_day' =
                  IF checked[selected_key].requests_today + 1 >= MAX_REQUESTS_PER_DAY
                  THEN [capped_day EXCEPT ![selected_key] = Date(now)]
                  ELSE capped_day
    /\ calls < MaxCalls /\ calls' = calls + 1
    /\ UNCHANGED <<clock, api_keys, quota_day, burst, limVars>>

\* get_next_key on the key states st at time now: the available keys, the
\* value returned and the key states it leaves.
AvailableKeys(st, now) == {k \in KeySet : IsKeyAvailable(st[k], now)}

NextKey(st, now) ==
    IF AvailableKeys(st, now) = {} THEN None
    ELSE MinKey(AvailableKeys(st, now),
                [k \in KeySet |-> CheckedState(st[k], now)])

AfterGetNextKey(st, now) ==
    LET checked == [k \in KeySet |-> CheckedState(st[k], now)] IN
    IF AvailableKeys(st, now) = {} THEN checked
    ELSE [checked EXCEPT ![NextKey(st, now)] = Selected(@, now)]

-----------------------------------------------------------------------------
(* mark_key_error *)

MarkedState(s, m, now) ==
    LET e == [s EXCEPT !.error_count = @ + 1, !.last_error = now] IN
    IF IsQuotaMessage(m)
    THEN [e EXCEPT !.available = FALSE, !.requests_today = MAX_REQUESTS_PER_DAY]
    ELSE e

NoBurst == [first |-> NoTime, n |-> 0]

\* The run b extended by a non-quota error at time now.
Extended(b, now) ==
    IF b.n > 0 /\ Date(b.first) = Date(now) /\ now - b.first < COOLDOWN_PERIOD
    THEN [b EXCEPT !.n = IF @ < ERROR_THRESHOLD THEN @ + 1 ELSE @]
    ELSE [first |-> now, n |-> 1]

\* Every caller passes self.current_api_key, the key get_next_key gave it.
AfterMarkKeyError(st, key, m, now) ==
    [st EXCEPT ![key] = MarkedState(@, m, now)]

MarkKeyError(key, m) ==
    LET now == clock IN
    /\ calls < MaxCalls /\ calls' = calls + 1
    /\ key = current_api_key
    /\ key_states[key].error_count < MaxErrors
    /\ key_states' = [key_states EXCEPT ![key] = MarkedState(@, m, now)]
    /\ capped_day' = IF m \in QuotaMsgIds
                     THEN [capped_day EXCEPT ![key] = Date(now)]
                     ELSE capped_day
    /\ quota_day' = IF m \in QuotaMsgIds
                    THEN [quota_day EXCEPT ![key] = Date(now)]
                    ELSE quota_day
    /\ burst' = IF m \in QuotaMsgIds
                THEN [burst EXCEPT ![key] = NoBurst]
                ELSE [burst EXCEPT ![key] = Extended(@, now)]
    /\ ret' = None
    /\ UNCHANGED <<clock, api_keys, current_api_key, limVars>>

\* TikTokProcessor(), lines 38-53, in a process that has served requests: the
\* new processor makes an APIKeyManager of its own, every key as at the
\* start, and _init_gemini takes a key from it.  The processor before it,
\* and its manager, are dropped.
NewTikTokProcessor ==
    LET now == clock
        fresh == [k \in KeySet |-> InitialKeyState]
        api_key == NextKey(fresh, now)
    IN
    /\ calls < MaxCalls /\ calls' = calls + 1
    /\ api_key # None
    /\ key_states' = AfterGetNextKey(fresh, now)
    /\ current_api_key' = api_key
    /\ ret' = api_key
    /\ capped_day' =
          IF fresh[api_key].requests_today + 1 >= MAX_REQUESTS_PER_DAY
          THEN [capped_day EXCEPT ![api_key] = Date(now)]
          ELSE capped_day
    /\ UNCHANGED <<clock, api_keys, quota_day, burst, limVars>>

-----------------------------------------------------------------------------
(* get_key_status *)

GetKeyStatus ==
    LET now == clock IN
    /\ calls < MaxCalls /\ calls' = calls + 1
    /\ key_states' = [k \in KeySet |-> CheckedState(key_states[k], now)]
    /\ ret' = None
    /\ UNCHANGED <<clock, api_keys, current_api_key, capped_day, quota_day,
                   burst, limVars>>

-----------------------------------------------------------------------------
(* Time passing between calls. *)

Tick ==
    /\ clock < MaxTime
    /\ clock' = clock + 1
    /\ ret' = None
    /\ UNCHANGED <<api_keys, key_states, current_api_key, capped_day, quota_day,
                   burst, calls, limVars>>

-----------------------------------------------------------------------------
(* RateLimiter.wait_for_quota.  The callers are asyncio tasks: a step runs *)
(* from one await to the next.                                             *)

Callers == {"t1", "t2"}

Idle == [pc |-> "idle", estimated_tokens |-> 0, wake_at |-> 0]

\* [t for t in self.requests_queue if now - t < timedelta(minutes=1)]
EvictOldShortWindow(q, now) == SelectSeq(q, LAMBDA t : now - t < Minute - 1)
EvictOld(q, now) == SelectSeq(q, LAMBDA t : now - t < Minute)

\* now - self.last_reset >= timedelta(minutes=1)
WindowRolledNever(now) == FALSE
WindowRolled(now) == now - last_reset >= Minute

\* The condition of the while loop, lines 31-32.
NoCapacityForgetsEstimate(q, used, estimated_tokens) ==
    \/ Len(q) >= requests_per_minute
    \/ used > tokens_per_minute
NoCapacityOneTooMany(q, used, estimated_tokens) ==
    \/ Len(q) > requests_per_minute
    \/ used + estimated_tokens > tokens_per_minute
NoCapacity(q, used, estimated_tokens) ==
    \/ Len(q) >= requests_per_minute
    \/ used + estimated_tokens > tokens_per_minute

\* The loop test and what follows it, with the queue, the token count and
\* the reset time as the code before it left them: asyncio.sleep(1), or
\* lines 42-43 and the return.
TestCapacity(c, estimated_tokens, now, q, used, reset) ==
    /\ last_reset' = reset
    /\ IF NoCapacity(q, used, estimated_tokens)
       THEN /\ requests_queue' = q
            /\ tokens_used' = used
            /\ waiter' = [waiter EXCEPT ![c] =
                            [pc |-> "sleeping",
                             estimated_tokens |-> estimated_tokens,
                             wake_at |-> now + 1]]
            /\ grants' = grants
       ELSE /\ requests_queue' = Append(q, now)
            /\ tokens_used' = used + estimated_tokens
            /\ waiter' = [waiter EXCEPT ![c] = Idle]
            /\ grants' = Append(grants, [at |-> now, tokens |-> estimated_tokens])

\* lines 23-33: the call, up to its first await or its return.
WaitForQuota(c, estimated_tokens) ==
    LET now == clock
        rolled == WindowRolled(now)
    IN
    /\ waiter[c].pc = "idle"
    /\ TestCapacity(c, estimated_tokens, now,
                    IF rolled THEN EvictOld(requests_queue, now) ELSE requests_queue,
                    IF rolled THEN 0 ELSE tokens_used,
                    IF rolled THEN now ELSE last_reset)
    /\ UNCHANGED <<clock, requests_per_minute, tokens_per_minute, keyVars>>

\* The calls made so far, granted or waiting, are below the bound of the run.
BelowMaxGrants ==
    Len(grants) + Cardinality({d \in Callers : waiter[d].pc = "sleeping"})
        < MaxGrants

\* lines 34-40 and the loop test again: the task resumes from its sleep.
Wake(c) ==
    LET now == clock
        rolled == WindowRolled(now)
    IN
    /\ waiter[c].pc = "sleeping"
    /\ clock >= waiter[c].wake_at
    /\ TestCapacity(c, waiter[c].estimated_tokens, now,
                    EvictOld(requests_queue, now),
                    IF rolled THEN 0 ELSE tokens_used,
                    IF rolled THEN now ELSE last_reset)
    /\ UNCHANGED <<clock, requests_per_minute, tokens_per_minute, keyVars>>

-----------------------------------------------------------------------------
(* TikTokProcessor (app/processor.py): its retried remote operations.  A   *)
(* step runs from one await to the next; the remote call is awaited.       *)

ProcOps == {"transcribe_audio", "generate_summary"}

\* max_attempts of _process_with_retry
max_attempts == 3

\* TikTokProcessor.__init__: _init_gemini takes the first key.
InitGemini ==
    LET now == clock
        api_key == NextKey(key_states, now)
    IN
    /\ proc_pc = "new"
    /\ api_key # None
    /\ key_states' = AfterGetNextKey(key_states, now)
    /\ current_api_key' = api_key
    /\ ret' = api_key
    /\ proc_pc' = "idle"
    /\ UNCHANGED <<clock, api_keys, capped_day, quota_day, burst, calls,
                   proc_op, attempt, outcome, remote_calls, day_calls,
                   quota_failed, ops>>

\* transcribe_audio / generate_summary called: _process_with_retry enters
\* its loop and the inner function awaits model.generate_content.
StartOperation(o) ==
    /\ proc_pc = "idle"
    /\ ops < MaxOps
    /\ ops' = ops + 1
    /\ proc_op' = o
    /\ proc_pc' = "calling"
    /\ attempt' = 0
    /\ outcome' = "pending"
    /\ remote_calls' = 1
    /\ day_calls' = [day |-> Date(clock), n |-> 1]
    /\ quota_failed' = {}
    /\ ret' = None
    /\ UNCHANGED <<clock, api_keys, key_states, current_api_key, capped_day,
                   quota_day, burst, calls>>

\* model.generate_content returns: the operation returns response.text.
RemoteSuccess ==
    /\ proc_pc = "calling"
    /\ proc_pc' = "idle"
    /\ outcome' = "text"
    /\ ret' = None
    /\ UNCHANGED <<clock, api_keys, key_states, current_api_key, capped_day,
                   quota_day, burst, calls, proc_op, attempt, remote_calls, day_calls,
                   quota_failed, ops>>

\* The calls of the day with one more, made at time now.
CalledOn(now) ==
    IF day_calls.day = Date(now)
    THEN [day_calls EXCEPT !.n = @ + 1]
    ELSE [day |-> Date(now), n |-> 1]

\* The failures recorded with this one added.
FailedWith(m, now) ==
    IF m \in QuotaMsgIds
    THEN quota_failed \cup {<<current_api_key, Date(now)>>}
    ELSE quota_failed

\* TranscribeFails letting the exception out when no key is left.
TranscribeFailsRaises(m) ==
    LET now == clock
        marked == AfterMarkKeyError(key_states, current_api_key, m, now)
        new_key == NextKey(marked, now)
    IN
    /\ proc_pc = "calling"
    /\ proc_op = "transcribe_audio"
    /\ key_states' = AfterGetNextKey(marked, now)
    /\ ret' = new_key
    /\ quota_failed' = FailedWith(m, now)
    /\ IF new_key # None
       THEN /\ current_api_key' = new_key
            /\ remote_calls' = remote_calls + 1
            /\ day_calls' = CalledOn(now)
            /\ UNCHANGED <<proc_pc, outcome>>
       ELSE /\ proc_pc' = "idle"
            /\ outcome' = "raised"
            /\ UNCHANGED <<current_api_key, remote_calls, day_calls>>
    /\ UNCHANGED <<clock, api_keys, capped_day, quota_day, burst, calls,
                   proc_op, attempt, ops>>

\* transcribe_audio, lines 205-215: model.generate_content raises inside
\* _transcribe, which reports the error, takes the next key and calls itself.
TranscribeFails(m) ==
    LET now == clock
        marked == AfterMarkKeyError(key_states, current_api_key, m, now)
        new_key == NextKey(marked, now)
    IN
    /\ proc_pc = "calling"
    /\ proc_op = "transcribe_audio"
    /\ key_states' = AfterGetNextKey(marked, now)
    /\ ret' = new_key
    /\ quota_failed' = FailedWith(m, now)
    /\ IF new_key # None
       THEN /\ current_api_key' = new_key
            /\ remote_calls' = remote_calls + 1
            /\ day_calls' = CalledOn(now)
            /\ UNCHANGED <<proc_pc, outcome>>
       ELSE /\ proc_pc' = "idle"
            /\ outcome' = "None"
            /\ UNCHANGED <<current_api_key, remote_calls, day_calls>>
    /\ UNCHANGED <<clock, api_keys, capped_day, quota_day, burst, calls,
                   proc_op, attempt, ops>>

\* generate_summary, lines 235-238 and 280-291: model.generate_content raises
\* inside _summarize, which reports the error and re-raises;
\* _process_with_retry reports it again and, before the last attempt, takes
\* the next key and loops.
SummarizeFails(m) ==
    LET now == clock
        marked == AfterMarkKeyError(
                      AfterMarkKeyError(key_states, current_api_key, m, now),
                      current_api_key, m, now)
        new_key == NextKey(marked, now)
    IN
    /\ proc_pc = "calling"
    /\ proc_op = "generate_summary"
    /\ quota_failed' = FailedWith(m, now)
    /\ IF attempt < max_attempts - 1
       THEN /\ key_states' = AfterGetNextKey(marked, now)
            /\ ret' = new_key
            /\ IF new_key # None
               THEN /\ current_api_key' = new_key
                    /\ attempt' = attempt + 1
                    /\ remote_calls' = remote_calls + 1
                    /\ day_calls' = CalledOn(now)
                    /\ UNCHANGED <<proc_pc, outcome>>
               ELSE /\ proc_pc' = "idle"
                    /\ outcome' = "raised"
                    /\ UNCHANGED <<current_api_key, attempt, remote_calls,
                                 day_calls>>
       ELSE /\ key_states' = marked
            /\ ret' = None
            /\ proc_pc' = "idle"
            /\ outcome' = "raised"
            /\ UNCHANGED <<current_api_key, attempt, remote_calls, day_calls>>
    /\ UNCHANGED <<clock, api_keys, capped_day, quota_day, burst, calls,
                   proc_op, ops>>

-----------------------------------------------------------------------------
(* LongVideoProcessor.generate_summary (app/long_processor.py): one remote *)
(* call behind the rate limiter, no retry.                                 *)

\* estimated_tokens of the processor's wait_for_quota calls (1000 in the
\* source), in the unit of the token budget.
estimated_tokens_per_call == 1

NoResult == [kind |-> "none", msg |-> 0]

\* f"[Error generating summary: {str(e)}]"
SummaryPlaceholder(m) == [kind |-> "placeholder", msg |-> m]

\* The call has its quota when wait_for_quota returned: it goes on to
\* model.generate_content; otherwise it sleeps inside wait_for_quota.
AfterQuotaCallsAnyway(c) ==
    summary_pc' = [summary_pc EXCEPT ![c] = "calling"]
AfterQuota(c) ==
    summary_pc' = [summary_pc EXCEPT ![c] =
                      IF waiter'[c].pc = "idle" THEN "calling" ELSE "waiting"]

\* lines 180-181: generate_summary called, up to its first await.
GenerateSummary(c) ==
    /\ summary_pc[c] = "idle"
    /\ BelowMaxGrants
    /\ WaitForQuota(c, estimated_tokens_per_call)
    /\ AfterQuota(c)
    /\ summary_result' = [summary_result EXCEPT ![c] = NoResult]

\* wait_for_quota resumes from its sleep.
SummaryWake(c) ==
    /\ summary_pc[c] = "waiting"
    /\ Wake(c)
    /\ AfterQuota(c)
    /\ UNCHANGED summary_result

\* lines 191-195: model.generate_content returns.
SummaryReturns(c) ==
    /\ summary_pc[c] = "calling"
    /\ summary_pc' = [summary_pc EXCEPT ![c] = "idle"]
    /\ summary_result' = [summary_result EXCEPT ![c] = [kind |-> "text", msg |-> 0]]
    /\ UNCHANGED <<clock, keyVars, limVars>>

\* lines 197-199: model.generate_content raises with message m.
SummaryFails(c, m) ==
    /\ summary_pc[c] = "calling"
    /\ summary_pc' = [summary_pc EXCEPT ![c] = "idle"]
    /\ summary_result' = [summary_result EXCEPT ![c] = SummaryPlaceholder(m)]
    /\ UNCHANGED <<clock, keyVars, limVars>>

-----------------------------------------------------------------------------
(* LongVideoProcessor (app/long_processor.py): split_audio, transcribe_chunk *)
(* and process_long_video, and the routes of app/long_routes.py.  A job is   *)
(* an asyncio task, named as the rate limiter's callers are; its request id  *)
(* is unique (time and os.urandom) and stands for the task.                  *)

\* Paths.  The audio of a request lies in the request's own temporary
\* directory; the chunks lie in the processor's shared temp_dir and are
\* named chunk_{start second}_{int(time.time())}.mp3.
AudioPath(j) == [dir |-> j, start |-> 0, stamp |-> 0]
ChunkPath(start, stamp) == [dir |-> "long_video", start |-> start, stamp |-> stamp]

\* What a file holds: the milliseconds [from, to) of a job's audio.
Segment(j, from, to) == [owner |-> j, from |-> from, to |-> to]
NoSegment == Segment("-", 0, 0)

\* Strings, as sequences of pieces: a transcript is one piece.
TextOf(content) == [kind |-> "text", seg |-> content, msg |-> 0]
\* f"[Error transcribing chunk after {retries} attempts: {str(e)}]"
ChunkPlaceholder(m) == [kind |-> "error", seg |-> NoSegment, msg |-> m]
Space == [kind |-> "space", seg |-> NoSegment, msg |-> 0]

\* " ".join(ts)
JoinNoSeparator(ts) == ts
Join(ts) ==
    IF Len(ts) = 0 THEN << >>
    ELSE [n \in 1..(2 * Len(ts) - 1) |->
             IF n % 2 = 1 THEN ts[(n + 1) \div 2] ELSE Space]

\* The error of open() on a missing file, and the messages of the remote
\* API's errors the jobs meet.
FileNotFound == 0
JobMsgIds == {1, 3}
NoError == -1

\* retries of transcribe_chunk
retries == 3

\* The final_transcript key, absent.
NoFinal == <<[kind |-> "absent", seg |-> NoSegment, msg |-> 0]>>

\* processing_results without the request.
NotFound ==
    [status |-> "not_found", progress |-> 0, transcripts |-> << >>,
     error |-> NoError, final_transcript |-> NoFinal]

NoJob ==
    [pc |-> "none", audio_path |-> AudioPath("-"), audio_ms |-> 0,
     chunks |-> << >>, i |-> 0,
     attempt |-> 0, wake_at |-> 0, audio_data |-> NoSegment,
     remote_calls |-> 0, quota_day |-> NoTime]

\* split_audio, lines 76-89: the chunks of an audio of len milliseconds, as
\* [path, from, to], in the order of the loop.
ChunkMs == chunk_duration * MsPerSecond

Min(a, b) == IF a <= b THEN a ELSE b

SplitAudioDropsRemainder(audio_path, len, now) ==
    IF len <= ChunkMs
    THEN <<[path |-> audio_path, from |-> 0, to |-> len]>>
    ELSE LET n == len \div ChunkMs IN
         [k \in 1..n |->
             LET i == (k - 1) * ChunkMs IN
             [path |-> ChunkPath(i \div MsPerSecond, now),
              from |-> i, to |-> Min(i + ChunkMs, len)]]
SplitAudio(audio_path, len, now) ==
    IF len <= ChunkMs
    THEN <<[path |-> audio_path, from |-> 0, to |-> len]>>
    ELSE LET n == (len + ChunkMs - 1) \div ChunkMs IN
         [k \in 1..n |->
             LET i == (k - 1) * ChunkMs IN
             [path |-> ChunkPath(i \div MsPerSecond, now),
              from |-> i, to |-> Min(i + ChunkMs, len)]]

\* chunk.export(chunk_path): the files after split_audio wrote its chunks.
Exported(fs, chunks, audio_path, owner) ==
    LET written == {k \in 1..Len(chunks) : chunks[k].path # audio_path} IN
    [q \in DOMAIN fs \cup {chunks[k].path : k \in written} |->
        IF \E k \in written : chunks[k].path = q
        THEN LET k == CHOOSE k \in written : chunks[k].path = q
             IN Segment(owner, chunks[k].from, chunks[k].to)
        ELSE fs[q]]

\* os.unlink(path), its error swallowed.
UnlinkedNothing(fs, path) == fs
Unlinked(fs, path) == [q \in DOMAIN fs \ {path} |-> fs[q]]

\* The lengths of the audio the jobs are given, in milliseconds: one chunk,
\* and two and three chunks with a shorter last one.
AudioLengths == {ChunkMs, ChunkMs + 1, 2 * ChunkMs + 1}

RECURSIVE AudioHanded(_)
\* The audio handed to the jobs js, in milliseconds.
AudioHanded(js) ==
    IF js = {} THEN 0
    ELSE LET j == CHOOSE x \in js : TRUE
         IN job[j].audio_ms + AudioHanded(js \ {j})

\* A caller of process_long_video that keeps the audio file: the task is
\* created and has not run yet.
CallProcessLongVideo(j, len) ==
    /\ job[j].pc = "none"
    /\ AudioHanded(Callers) + len <= MaxAudioMs
    /\ job' = [job EXCEPT ![j] = [NoJob EXCEPT !.pc = "scheduled",
                                             !.audio_path = AudioPath(j),
                                             !.audio_ms = len]]
    /\ files' = [q \in DOMAIN files \cup {AudioPath(j)} |->
                    IF q = AudioPath(j) THEN Segment(j, 0, len) ELSE files[q]]
    /\ UNCHANGED <<clock, keyVars, limVars, processing_results, failures>>

\* POST /process-long, long_routes.py lines 43-59, after the audio was
\* extracted into the TikTokProcessor's temp_dir: the task is created, the
\* response returned, and the finally block runs cleanup(), which removes
\* temp_dir with the audio in it, before the task gets to run.
PostProcessLong(j, len) ==
    /\ job[j].pc = "none"
    /\ AudioHanded(Callers) + len <= MaxAudioMs
    /\ job' = [job EXCEPT ![j] = [NoJob EXCEPT !.pc = "scheduled",
                                             !.audio_path = AudioPath(j),
                                             !.audio_ms = len]]
    /\ files' = Unlinked(files, AudioPath(j))
    /\ UNCHANGED <<clock, keyVars, limVars, processing_results, failures>>

\* The except block of process_long_video, lines 157-160.
JobFailedKeepsStatus(r, m) == [r EXCEPT !.error = m]
JobFailedDropsMessage(r, m) == [r EXCEPT !.status = "failed"]
JobFailed(r, m) == [r EXCEPT !.status = "failed", !.error = m]

\* process_long_video, lines 126-136: the task's first step.
StartJob(j) ==
    LET now == clock
        started == [status |-> "processing", progress |-> 0,
                    transcripts |-> << >>, error |-> NoError,
                    final_transcript |-> NoFinal]
        audio_path == job[j].audio_path
    IN
    /\ job[j].pc = "scheduled"
    /\ IF audio_path \in DOMAIN files
       THEN LET chunks == SplitAudio(audio_path, files[audio_path].to, now) IN
            /\ processing_results' = [processing_results EXCEPT ![j] = started]
            /\ files' = Exported(files, chunks, audio_path, j)
            /\ job' = [job EXCEPT ![j].pc = "ready", ![j].chunks = chunks,
                                  ![j].i = 0, ![j].attempt = 0]
       ELSE /\ processing_results' =
                  [processing_results EXCEPT ![j] = JobFailed(started, FileNotFound)]
            /\ files' = files
            /\ job' = [job EXCEPT ![j].pc = "done"]
    /\ UNCHANGED <<clock, keyVars, limVars, failures>>

\* Line 143: int((i + 1) * 100 / total_chunks)
ProgressBeforeChunk(i, total_chunks) == (i * 100) \div total_chunks
Progress(i, total_chunks) == ((i + 1) * 100) \div total_chunks

\* Lines 142-155: the chunk's transcript t is recorded, the chunk file
\* removed, and the loop goes on to the next chunk or the job completes.
RecordedKeepsProcessing(j, t) ==
    LET r == processing_results[j]
        total_chunks == Len(job[j].chunks)
        i == job[j].i
        ts == Append(r.transcripts, t)
        r1 == [r EXCEPT !.transcripts = ts,
                        !.progress = Progress(i, total_chunks)]
    IN
    [results |-> IF i + 1 < total_chunks
                 THEN [processing_results EXCEPT ![j] = r1]
                 ELSE [processing_results EXCEPT ![j] =
                          [r1 EXCEPT !.final_transcript = Join(ts)]],
     job |-> IF i + 1 < total_chunks
             THEN [job EXCEPT ![j].pc = "ready", ![j].i = i + 1,
                              ![j].attempt = 0, ![j].audio_data = NoSegment,
                              ![j].remote_calls = 0, ![j].quota_day = NoTime]
             ELSE [job EXCEPT ![j].pc = "done", ![j].audio_data = NoSegment],
     files |-> Unlinked(files, job[j].chunks[i + 1].path)]
Recorded(j, t) ==
    LET r == processing_results[j]
        total_chunks == Len(job[j].chunks)
        i == job[j].i
        ts == Append(r.transcripts, t)
        r1 == [r EXCEPT !.transcripts = ts,
                        !.progress = Progress(i, total_chunks)]
    IN
    [results |-> IF i + 1 < total_chunks
                 THEN [processing_results EXCEPT ![j] = r1]
                 ELSE [processing_results EXCEPT ![j] =
                          [r1 EXCEPT !.status = "completed",
                                     !.final_transcript = Join(ts)]],
     job |-> IF i + 1 < total_chunks
             THEN [job EXCEPT ![j].pc = "ready", ![j].i = i + 1,
                              ![j].attempt = 0, ![j].audio_data = NoSegment,
                              ![j].remote_calls = 0, ![j].quota_day = NoTime]
             ELSE [job EXCEPT ![j].pc = "done", ![j].audio_data = NoSegment],
     files |-> Unlinked(files, job[j].chunks[i + 1].path)]

\* 2 ** attempt
Backoff(a) == 2 ^ a

\* transcribe_chunk, lines 117-121: an attempt raised with message m.
RaisedAbortsJob(j, m, now) ==
    IF job[j].attempt = retries - 1
    THEN [results |-> [processing_results EXCEPT ![j] = JobFailed(@, m)],
          job |-> [job EXCEPT ![j].pc = "done", ![j].audio_data = NoSegment],
          files |-> files]
    ELSE [results |-> processing_results,
          job |-> [job EXCEPT ![j].pc = "backoff",
                              ![j].audio_data = NoSegment,
                              ![j].wake_at = now + Backoff(job[j].attempt)],
          files |-> files]
RaisedFailsAndGoesOn(j, m, now) ==
    IF job[j].attempt = retries - 1
    THEN LET x == Recorded(j, ChunkPlaceholder(m)) IN
         [x EXCEPT !.results[j].status = "failed"]
    ELSE [results |-> processing_results,
          job |-> [job EXCEPT ![j].pc = "backoff",
                              ![j].audio_data = NoSegment,
                              ![j].wake_at = now + Backoff(job[j].attempt)],
          files |-> files]
Raised(j, m, now) ==
    IF job[j].attempt = retries - 1
    THEN Recorded(j, ChunkPlaceholder(m))
    ELSE [results |-> processing_results,
          job |-> [job EXCEPT ![j].pc = "backoff",
                              ![j].audio_data = NoSegment,
                              ![j].wake_at = now + Backoff(job[j].attempt)],
          files |-> files]

\* transcribe_chunk after wait_for_quota, lines 100-114: with the quota
\* granted the chunk file is read and model.generate_content awaited; the
\* call sleeps inside wait_for_quota otherwise.
AfterChunkQuota(j) ==
    LET now == clock
        path == job[j].chunks[job[j].i + 1].path
    IN
    IF waiter'[j].pc # "idle"
    THEN /\ job' = [job EXCEPT ![j].pc = "waiting"]
         /\ UNCHANGED <<processing_results, files>>
    ELSE IF path \in DOMAIN files
         THEN /\ job' = [job EXCEPT ![j].pc = "calling",
                                    ![j].audio_data = files[path],
                                    ![j].remote_calls = @ + 1]
              /\ UNCHANGED <<processing_results, files>>
         ELSE LET x == Raised(j, FileNotFound, now) IN
              /\ job' = x.job
              /\ processing_results' = x.results
              /\ files' = x.files

\* transcribe_chunk, lines 97-100: an attempt begins.  The code reaches this
\* call without an await after the step that made the job "ready"; the model
\* lets other tasks and the clock move in between, which adds behaviours and
\* takes none away.
TranscribeChunk(j) ==
    /\ job[j].pc = "ready"
    /\ WaitForQuota(j, estimated_tokens_per_call)
    /\ AfterChunkQuota(j)
    /\ UNCHANGED failures

\* wait_for_quota resumes from its sleep.
ChunkWake(j) ==
    /\ job[j].pc = "waiting"
    /\ Wake(j)
    /\ AfterChunkQuota(j)
    /\ UNCHANGED failures

\* Lines 105-115: model.generate_content returns the transcript of the audio
\* it was given.
ChunkTranscribed(j) ==
    LET x == Recorded(j, TextOf(job[j].audio_data)) IN
    /\ job[j].pc = "calling"
    /\ job' = x.job
    /\ processing_results' = x.results
    /\ files' = x.files
    /\ UNCHANGED <<clock, keyVars, limVars, failures>>

\* Lines 117-121: model.generate_content raises with message m.
ChunkFails(j, m) ==
    LET now == clock
        x == Raised(j, m, now)
    IN
    /\ job[j].pc = "calling"
    /\ failures < MaxFailures
    /\ failures' = failures + 1
    /\ job' = [x.job EXCEPT ![j].quota_day =
                  IF m \in QuotaMsgIds /\ x.job[j].pc = "backoff"
                  THEN Date(now) ELSE @]
    /\ processing_results' = x.results
    /\ files' = x.files
    /\ UNCHANGED <<clock, keyVars, limVars>>

\* Line 121: the sleep before the next attempt is over.
BackoffOver(j) ==
    /\ job[j].pc = "backoff"
    /\ clock >= job[j].wake_at
    /\ job' = [job EXCEPT ![j].pc = "ready", ![j].attempt = @ + 1,
                          ![j].wake_at = 0]
    /\ UNCHANGED <<clock, keyVars, limVars, processing_results, files, failures>>

\* The default of get_processing_status, lines 164-168.
StatusNotFound == [status |-> "not_found", progress |-> 0, error |-> NoError]

\* get_processing_status: processing_results.get(request_id, default).
GetProcessingStatusHidesFailed(request_id) ==
    IF processing_results[request_id] = NotFound
       \/ processing_results[request_id].status = "failed"
    THEN StatusNotFound
    ELSE processing_results[request_id]
GetProcessingStatus(request_id) ==
    IF processing_results[request_id] = NotFound
    THEN StatusNotFound
    ELSE processing_results[request_id]

\* GET /result/{request_id}: the HTTP status and the body.
GetProcessingResultSkipsProcessing(request_id) ==
    LET status == GetProcessingStatus(request_id) IN
    IF status.status = "not_found" THEN [code |-> 404]
    ELSE IF status.status = "failed" THEN [code |-> 500, detail |-> status.error]
    ELSE [code |-> 200,
          transcript |-> IF status.final_transcript = NoFinal
                         THEN << >> ELSE status.final_transcript,
          chunks_processed |-> Len(status.transcripts),
          status |-> "completed"]
GetProcessingResult(request_id) ==
    LET status == GetProcessingStatus(request_id) IN
    IF status.status = "not_found" THEN [code |-> 404]
    ELSE IF status.status = "processing" THEN [code |-> 102]
    ELSE IF status.status = "failed" THEN [code |-> 500, detail |-> status.error]
    ELSE [code |-> 200,
          transcript |-> IF status.final_transcript = NoFinal
                         THEN << >> ELSE status.final_transcript,
          chunks_processed |-> Len(status.transcripts),
          status |-> "completed"]

\* No request answered yet.
NoResponse == [route |-> "none", request_id |-> "-", answer |-> [code |-> 0]]

\* GET /status/{request_id}: 404, or the record as the body.
GetStatus(request_id) ==
    LET status == GetProcessingStatus(request_id) IN
    /\ response' =
          [route |-> "status", request_id |-> request_id,
           answer |-> IF status.status = "not_found"
                      THEN [code |-> 404]
                      ELSE [code |-> 200, body |-> status]]
    /\ UNCHANGED <<clock, keyVars, limVars, jobVars>>

\* GET /result/{request_id}
GetResult(request_id) ==
    /\ response' = [route |-> "result", request_id |-> request_id,
                    answer |-> GetProcessingResult(request_id)]
    /\ UNCHANGED <<clock, keyVars, limVars, jobVars>>

-----------------------------------------------------------------------------
(* The specifications. *)

\* APIKeyManager.__init__ with the pool given.
KeyVarsInit(pool) ==
    /\ api_keys = pool
    /\ key_states = [k \in KeySet |-> InitialKeyState]
    /\ current_api_key = None
    /\ ret = None
    /\ capped_day = [k \in KeySet |-> NoTime]
    /\ quota_day = [k \in KeySet |-> NoTime]
    /\ burst = [k \in KeySet |-> NoBurst]
    /\ calls = 0

\* RateLimiter.__init__ at time 0.
LimVarsInit(rpm, tpm) ==
    /\ requests_per_minute = rpm
    /\ tokens_per_minute = tpm
    /\ requests_queue = << >>
    /\ tokens_used = 0
    /\ last_reset = 0
    /\ waiter = [c \in Callers |-> Idle]
    /\ grants = << >>

\* No generate_summary call in progress.
SumVarsInit ==
    /\ summary_pc = [c \in Callers |-> "idle"]
    /\ summary_result = [c \in Callers |-> NoResult]

\* A TikTokProcessor not yet constructed.
ProcVarsInit ==
    /\ proc_pc = "new"
    /\ proc_op = "none"
    /\ attempt = 0
    /\ outcome = "none"
    /\ remote_calls = 0
    /\ day_calls = [day |-> 0, n |-> 0]
    /\ quota_failed = {}
    /\ ops = 0

\* LongVideoProcessor.__init__: no job, and no file of its own.
JobVarsInit ==
    /\ job = [j \in Callers |-> NoJob]
    /\ processing_results = [j \in Callers |-> NotFound]
    /\ files = << >>
    /\ failures = 0

\* No request to a route answered.
RouteVarsInit ==
    /\ response = NoResponse
    /\ ready = << >>
    /\ told = {}

\* What the steps of one component leave alone.
NoProcessorStep == UNCHANGED <<procVars, sumVars, jobVars, routeVars, loopVars>>
NoLimiterStep == UNCHANGED <<limVars, sumVars, jobVars, routeVars, loopVars>>
NoJobStep == UNCHANGED <<procVars, jobVars, routeVars, loopVars>>
NoSummaryStep == UNCHANGED <<procVars, sumVars, routeVars, loopVars>>
NoTaskStep == UNCHANGED <<procVars, sumVars, loopVars>>

\* One APIKeyManager and its callers.
KeyInit ==
    /\ clock = 0
    /\ \E pool \in Pools : KeyVarsInit(pool)
    /\ LimVarsInit(1, 1)
    /\ ProcVarsInit
    /\ SumVarsInit
    /\ JobVarsInit
    /\ RouteVarsInit

KeyNext ==
    \/ Tick /\ NoProcessorStep
    \/ GetNextKey /\ NoProcessorStep
    \/ \E key \in KeySet, m \in MsgIds : MarkKeyError(key, m) /\ NoProcessorStep
    \/ GetKeyStatus /\ NoProcessorStep

KeySpec == KeyInit /\ [][KeyNext]_vars

\* One RateLimiter and the tasks that call it.
LimiterInit ==
    /\ clock = 0
    /\ KeyVarsInit(<<"k1">>)
    /\ \E rpm \in 1..MaxRequestsPerMinute, tpm \in 1..MaxTokensPerMinute :
          LimVarsInit(rpm, tpm)
    /\ ProcVarsInit
    /\ SumVarsInit
    /\ JobVarsInit
    /\ RouteVarsInit

LimiterNext ==
    \/ Tick /\ NoProcessorStep
    \/ \E c \in Callers, e \in 1..MaxEstimatedTokens :
          BelowMaxGrants /\ WaitForQuota(c, e) /\ NoProcessorStep
    \/ \E c \in Callers : Wake(c) /\ NoProcessorStep

LimiterSpec == LimiterInit /\ [][LimiterNext]_vars

\* One TikTokProcessor with its own APIKeyManager.
ProcInit ==
    /\ clock = 0
    /\ \E pool \in Pools : KeyVarsInit(pool)
    /\ LimVarsInit(1, 1)
    /\ ProcVarsInit
    /\ SumVarsInit
    /\ JobVarsInit
    /\ RouteVarsInit

ProcNext ==
    \/ Tick /\ NoProcessorStep
    \/ InitGemini /\ NoLimiterStep
    \/ \E o \in ProcOps : StartOperation(o) /\ NoLimiterStep
    \/ RemoteSuccess /\ NoLimiterStep
    \/ \E m \in MsgIds : TranscribeFails(m) /\ NoLimiterStep
    \/ \E m \in MsgIds : SummarizeFails(m) /\ NoLimiterStep

ProcSpec == ProcInit /\ [][ProcNext]_vars

\* A step in which the remote call of transcribe_audio in flight ends:
\* asyncio.to_thread(self.model.generate_content, ...) returns, or raises and
\* _transcribe either returns None or issues the next call.
TranscribeCallEnds ==
    /\ proc_pc = "calling"
    /\ proc_op = "transcribe_audio"
    /\ \/ proc_pc' = "idle" /\ remote_calls' = remote_calls
       \/ proc_pc' = "calling" /\ remote_calls' = remote_calls + 1

\* The same processor when every remote call returns or raises sooner or
\* later: no call stays in flight for ever.
ProcLiveSpec ==
    /\ ProcInit
    /\ [][ProcNext]_vars
    /\ WF_<<proc_pc, remote_calls>>(TranscribeCallEnds)

\* One LongVideoProcessor, RateLimiter() with its defaults, and the tasks
\* that call generate_summary.
SummaryInit ==
    /\ clock = 0
    /\ KeyVarsInit(<<"k1">>)
    /\ LimVarsInit(DefaultRequestsPerMinute, DefaultTokensPerMinute)
    /\ ProcVarsInit
    /\ SumVarsInit
    /\ JobVarsInit
    /\ RouteVarsInit

SummaryNext ==
    \/ Tick /\ NoProcessorStep
    \/ \E c \in Callers : GenerateSummary(c) /\ NoJobStep
    \/ \E c \in Callers : SummaryWake(c) /\ NoJobStep
    \/ \E c \in Callers : SummaryReturns(c) /\ NoJobStep
    \/ \E c \in Callers, m \in MsgIds : SummaryFails(c, m) /\ NoJobStep

SummarySpec == SummaryInit /\ [][SummaryNext]_vars

\* One LongVideoProcessor, RateLimiter() with its defaults, and the
\* long-video jobs.
JobInit ==
    /\ clock = 0
    /\ KeyVarsInit(<<"k1">>)
    /\ LimVarsInit(DefaultRequestsPerMinute, DefaultTokensPerMinute)
    /\ ProcVarsInit
    /\ SumVarsInit
    /\ JobVarsInit
    /\ RouteVarsInit

JobNext ==
    \/ Tick /\ NoProcessorStep
    \/ \E j \in Callers, len \in AudioLengths :
          CallProcessLongVideo(j, len) /\ NoSummaryStep
    \/ \E j \in Callers, len \in AudioLengths :
          PostProcessLong(j, len) /\ NoSummaryStep
    \/ \E j \in Callers : StartJob(j) /\ NoSummaryStep
    \/ \E j \in Callers : TranscribeChunk(j) /\ NoSummaryStep
    \/ \E j \in Callers : ChunkWake(j) /\ NoSummaryStep
    \/ \E j \in Callers : ChunkTranscribed(j) /\ NoSummaryStep
    \/ \E j \in Callers, m \in JobMsgIds : ChunkFails(j, m) /\ NoSummaryStep
    \/ \E j \in Callers : BackoffOver(j) /\ NoSummaryStep

JobSpec == JobInit /\ [][JobNext]_vars

\* split_audio alone, on audio of every length: the jobs are started and
\* stop after their first step.
SplitNext ==
    \/ Tick /\ NoProcessorStep
    \/ \E j \in Callers, len \in 1..MaxAudioMs :
          CallProcessLongVideo(j, len) /\ NoSummaryStep
    \/ \E j \in Callers, len \in 1..MaxAudioMs :
          PostProcessLong(j, len) /\ NoSummaryStep
    \/ \E j \in Callers : StartJob(j) /\ NoSummaryStep

SplitSpec == JobInit /\ [][SplitNext]_vars

\* One long-video job and the requests to GET /status and GET /result, for
\* the job's request id and for an id no job has.
RouteNext ==
    \/ Tick /\ NoProcessorStep
    \/ \E len \in AudioLengths : CallProcessLongVideo("t1", len) /\ NoSummaryStep
    \/ \E len \in AudioLengths : PostProcessLong("t1", len) /\ NoSummaryStep
    \/ StartJob("t1") /\ NoSummaryStep
    \/ TranscribeChunk("t1") /\ NoSummaryStep
    \/ ChunkWake("t1") /\ NoSummaryStep
    \/ ChunkTranscribed("t1") /\ NoSummaryStep
    \/ \E m \in JobMsgIds : ChunkFails("t1", m) /\ NoSummaryStep
    \/ BackoffOver("t1") /\ NoSummaryStep
    \/ \E request_id \in Callers : GetStatus(request_id) /\ NoTaskStep
    \/ \E request_id \in Callers : GetResult(request_id) /\ NoTaskStep

RouteSpec == JobInit /\ [][RouteNext]_vars


\* One long-video job and a task that calls generate_summary, behind the one
\* RateLimiter of the LongVideoProcessor.
GateNext ==
    \/ Tick /\ NoProcessorStep
    \/ \E len \in AudioLengths : CallProcessLongVideo("t1", len) /\ NoSummaryStep
    \/ StartJob("t1") /\ NoSummaryStep
    \/ TranscribeChunk("t1") /\ NoSummaryStep
    \/ ChunkWake("t1") /\ NoSummaryStep
    \/ ChunkTranscribed("t1") /\ NoSummaryStep
    \/ \E m \in JobMsgIds : ChunkFails("t1", m) /\ NoSummaryStep
    \/ BackoffOver("t1") /\ NoSummaryStep
    \/ GenerateSummary("t2") /\ NoJobStep
    \/ SummaryWake("t2") /\ NoJobStep
    \/ SummaryReturns("t2") /\ NoJobStep
    \/ \E m \in JobMsgIds : SummaryFails("t2", m) /\ NoJobStep

GateSpec == JobInit /\ [][GateNext]_vars

\* One RateLimiter and the tasks that call it, with time that never stops.
\* The limiter reads the clock only to compare the age of a time it kept
\* with one minute, or a wake-up time with now: a second passes by every
\* kept time growing one second older, a time of a minute ago or more kept
\* as a minute old.  The history of grants keeps those of the last minute.
Aged(t) == IF t - 1 < clock - Minute THEN clock - Minute ELSE t - 1

Elapse ==
    /\ requests_queue' = [n \in 1..Len(requests_queue) |-> Aged(requests_queue[n])]
    /\ last_reset' = Aged(last_reset)
    /\ waiter' = [c \in Callers |->
                     IF waiter[c].pc = "sleeping" /\ waiter[c].wake_at > clock
                     THEN [waiter[c] EXCEPT !.wake_at = @ - 1]
                     ELSE waiter[c]]
    /\ grants' = LET young == SelectSeq(grants, LAMBDA g : clock - (g.at - 1) < Minute)
                 IN [n \in 1..Len(young) |-> [young[n] EXCEPT !.at = @ - 1]]
    /\ UNCHANGED <<clock, requests_per_minute, tokens_per_minute, tokens_used,
                   keyVars>>

LimiterLiveNext ==
    \/ Elapse /\ NoProcessorStep
    \/ \E c \in Callers, e \in 1..MaxEstimatedTokens :
          WaitForQuota(c, e) /\ NoProcessorStep
    \/ \E c \in Callers : Wake(c) /\ NoProcessorStep

\* Time keeps advancing, and the event loop resumes a task whose sleep is
\* over.
LimiterLiveSpec ==
    /\ LimiterInit
    /\ [][LimiterLiveNext]_vars
    /\ WF_vars(Elapse /\ NoProcessorStep)
    /\ \A c \in Callers : WF_vars(Wake(c) /\ NoProcessorStep)

\* One long-video job and a task that calls generate_summary again and
\* again, on the one RateLimiter, with time that never stops: a second
\* passes as in Elapse, and the sleep of transcribe_chunk before its next
\* attempt comes a second nearer its end.
JobElapse ==
    /\ Elapse
    /\ job' = [j \in Callers |->
                  IF job[j].pc = "backoff" /\ job[j].wake_at > clock
                  THEN [job[j] EXCEPT !.wake_at = @ - 1]
                  ELSE job[j]]
    /\ UNCHANGED <<processing_results, files, failures>>

\* The remote call of the job's chunk returns or raises.
ChunkCallEnds(j) ==
    \/ ChunkTranscribed(j)
    \/ \E m \in JobMsgIds : ChunkFails(j, m)

\* The remote call of generate_summary returns or raises.
SummaryCallEnds(c) ==
    \/ SummaryReturns(c)
    \/ \E m \in JobMsgIds : SummaryFails(c, m)

\* The event loop runs the job's task whenever it can run.
JobTaskRuns(j) ==
    \/ StartJob(j)
    \/ TranscribeChunk(j)
    \/ ChunkWake(j)
    \/ BackoffOver(j)

JobLiveNext ==
    \/ JobElapse /\ NoSummaryStep
    \/ \E len \in AudioLengths : CallProcessLongVideo("t1", len) /\ NoSummaryStep
    \/ \E len \in AudioLengths : PostProcessLong("t1", len) /\ NoSummaryStep
    \/ JobTaskRuns("t1") /\ NoSummaryStep
    \/ ChunkCallEnds("t1") /\ NoSummaryStep
    \/ GenerateSummary("t2") /\ NoJobStep
    \/ SummaryWake("t2") /\ NoJobStep
    \/ SummaryCallEnds("t2") /\ NoJobStep

\* Time keeps advancing, every remote call returns or raises, and the event
\* loop runs a task that can run.
JobLiveSpec ==
    /\ JobInit
    /\ [][JobLiveNext]_vars
    /\ WF_vars(JobElapse /\ NoSummaryStep)
    /\ WF_vars(JobTaskRuns("t1") /\ NoSummaryStep)
    /\ WF_vars(ChunkCallEnds("t1") /\ NoSummaryStep)
    /\ WF_vars(SummaryWake("t2") /\ NoJobStep)
    /\ WF_vars(SummaryCallEnds("t2") /\ NoJobStep)

\* The routes on the event loop.  asyncio keeps the callbacks that can run
\* in a queue and runs them in the order they were added: create_task adds
\* the task's first step, and a request read from a socket adds its handler.
FirstStep(j) == [kind |-> "task", id |-> j, after |-> FALSE]
StatusHandler(request_id) ==
    [kind |-> "status", id |-> request_id, after |-> request_id \in told]

\* PostReturns with the task left for later: nothing is queued.
PostReturnsTaskNotQueued(j, len) ==
    /\ PostProcessLong(j, len)
    /\ Len(ready) < MaxReady
    /\ ready' = ready
    /\ told' = told \cup {j}
    /\ UNCHANGED <<procVars, sumVars, routeVars>>

\* POST /process-long, lines 43-59: the last step of the handler creates the
\* task, returns the request id and runs cleanup().
PostReturns(j, len) ==
    /\ PostProcessLong(j, len)
    /\ Len(ready) < MaxReady
    /\ ready' = Append(ready, FirstStep(j))
    /\ told' = told \cup {j}
    /\ UNCHANGED <<procVars, sumVars, routeVars>>

\* Some other caller creates the task and keeps the audio.
TaskCreated(j, len) ==
    /\ CallProcessLongVideo(j, len)
    /\ Len(ready) < MaxReady
    /\ ready' = Append(ready, FirstStep(j))
    /\ told' = told \cup {j}
    /\ UNCHANGED <<procVars, sumVars, routeVars>>

\* A request GET /status/{request_id} arrives: its handler is queued.  The
\* item says whether POST had returned the id by then.
StatusRequested(request_id) ==
    /\ Len(ready) < MaxReady
    /\ ready' = Append(ready, StatusHandler(request_id))
    /\ UNCHANGED <<clock, keyVars, limVars, procVars, sumVars, jobVars,
                   routeVars, told>>

\* The event loop runs the callback at the head of the queue: the first
\* step of a task,
RunsFirstStep ==
    /\ ready # << >>
    /\ Head(ready).kind = "task"
    /\ StartJob(Head(ready).id)
    /\ ready' = Tail(ready)
    /\ UNCHANGED <<procVars, sumVars, routeVars, told>>

\* or the handler of GET /status.
RunsStatusHandler ==
    /\ ready # << >>
    /\ Head(ready).kind = "status"
    /\ GetStatus(Head(ready).id)
    /\ ready' = Tail(ready)
    /\ UNCHANGED <<procVars, sumVars, told>>

LoopNext ==
    \/ Tick /\ NoProcessorStep
    \/ \E j \in Callers, len \in AudioLengths : PostReturns(j, len)
    \/ \E j \in Callers, len \in AudioLengths : TaskCreated(j, len)
    \/ \E request_id \in Callers : StatusRequested(request_id)
    \/ RunsFirstStep
    \/ RunsStatusHandler

LoopSpec == JobInit /\ [][LoopNext]_vars

\* The requests of one process, one after the other: each constructs a
\* TikTokProcessor (long_routes.py line 31) and uses its pool.
RequestNext ==
    \/ Tick /\ NoProcessorStep
    \/ NewTikTokProcessor /\ NoProcessorStep
    \/ GetNextKey /\ NoProcessorStep
    \/ \E key \in KeySet, m \in MsgIds : MarkKeyError(key, m) /\ NoProcessorStep

RequestSpec == KeyInit /\ [][RequestNext]_vars
-----------------------------------------------------------------------------
(* Properties of the credential pool. *)

Today == Date(clock)

Req(k) == key_states[k].requests_today

\* Rule 1 of the availability rules applies to k at the current time.
Stale(k) ==
    \/ key_states[k].quota_reset = NoTime
    \/ Today > Date(key_states[k].quota_reset)

\* The availability rules 1-4, read off the state before a call.
CountAfterRule1(k) == IF Stale(k) THEN 0 ELSE Req(k)
ErrorsAfterRule1(k) == IF Stale(k) THEN 0 ELSE key_states[k].error_count
FlagAfterRule1(k) == IF Stale(k) THEN TRUE ELSE key_states[k].available
AvailableByRules(k) ==
    /\ CountAfterRule1(k) < MAX_REQUESTS_PER_DAY
    /\ ~(/\ ErrorsAfterRule1(k) >= ERROR_THRESHOLD
         /\ clock - key_states[k].last_error < COOLDOWN_PERIOD)
    /\ FlagAfterRule1(k)

\* C1: on one calendar day, once every key of the pool has
\* requests_today == MAX_REQUESTS_PER_DAY (each count written on that day),
\* every get_next_key call of that day returns None.
C1_ExhaustedPoolReturnsNone ==
    [][ ( /\ GetNextKey
          /\ \A k \in KeySet : Req(k) = MAX_REQUESTS_PER_DAY
                                /\ capped_day[k] = Today )
        => ret' = None ]_vars

C3_CooldownBlocksKey ==
    [][ GetNextKey
        => \A k \in KeySet :
              ( /\ burst[k].n >= ERROR_THRESHOLD
                /\ Date(burst[k].first) = Today
                /\ Req(k) < MAX_REQUESTS_PER_DAY
                /\ clock - key_states[k].last_error < COOLDOWN_PERIOD )
              => ret' # k ]_vars

\* C4: mark_key_error with a message that says "quota exceeded" in any
\* letter case leaves the key with available == false and
\* requests_today == MAX_REQUESTS_PER_DAY, and get_next_key does not return
\* the key again on the calendar day of that error.
C4_QuotaErrorLocksKeyForTheDay ==
    [][ /\ \A key \in KeySet, m \in QuotaMsgIds :
              MarkKeyError(key, m)
              => /\ key_states'[key].available = FALSE
                 /\ key_states'[key].requests_today = MAX_REQUESTS_PER_DAY
        /\ GetNextKey => \A k \in KeySet : quota_day[k] = Today => ret' # k
      ]_vars

\* The first half of C4 alone: what mark_key_error writes.
QuotaErrorWritesLockout ==
    [][ \A key \in KeySet, m \in QuotaMsgIds :
              MarkKeyError(key, m)
              => /\ key_states'[key].available = FALSE
                 /\ key_states'[key].requests_today = MAX_REQUESTS_PER_DAY
      ]_vars

\* (requests_today, last_used) of a at most that of b, in the order of
\* tuples, an unset last_used before every timestamp.
PairAtMost(ra, ua, rb, ub) == ra < rb \/ (ra = rb /\ ua <= ub)

\* C5: a key that get_next_key returns is available at the time of the call
\* and has the smallest (requests_today, last_used) among the available keys.
C5_ReturnsLeastUsedAvailableKey ==
    [][ (GetNextKey /\ ret' # None)
        => /\ ret' \in KeySet
           /\ AvailableByRules(ret')
           /\ \A k \in KeySet :
                 AvailableByRules(k)
                 => PairAtMost(CountAfterRule1(ret'), key_states[ret'].last_used,
                               CountAfterRule1(k), key_states[k].last_used)
      ]_vars

\* A key was chosen over an available key of the same count that stands
\* before it in the list, by its older last use.
C5_Witness ==
    /\ Len(api_keys) = 2
    /\ ret = "k2"
    /\ Req("k2") = Req("k1") + 1
    /\ key_states["k1"].last_used # NoTime
    /\ key_states["k1"].last_used < clock
    /\ key_states["k1"].available
    /\ Date(key_states["k1"].quota_reset) = Today
    /\ key_states["k1"].error_count < ERROR_THRESHOLD

\* C6: the first availability check of a key on a date after that of its
\* quota_reset (or with quota_reset unset) sets quota_reset to the current
\* time, error_count to 0, available to true and requests_today to 0 (1 for
\* the key get_next_key then selects); a get_next_key that finds such a key
\* returns a key.
C6_DailyRollover ==
    [][ (GetNextKey \/ GetKeyStatus)
        => /\ \A k \in KeySet :
                 Stale(k)
                 => /\ key_states'[k].quota_reset = clock
                    /\ key_states'[k].error_count = 0
                    /\ key_states'[k].available = TRUE
                    /\ key_states'[k].requests_today = IF ret' = k THEN 1 ELSE 0
           /\ (GetNextKey /\ \E k \in KeySet : Stale(k)) => ret' # None
      ]_vars

\* A key locked out by a quota-exceeded error on an earlier day was selected.
C6_Witness ==
    /\ ret \in KeySet
    /\ quota_day[ret] # NoTime
    /\ quota_day[ret] < Today
    /\ key_states[ret].quota_reset = clock
    /\ key_states[ret].available

\* C7: get_key_status changes no field of any key.
C7_StatusHasNoSideEffects ==
    [][ GetKeyStatus => key_states' = key_states ]_vars

\* C8 as claimed: a get_next_key that returns k raises k's requests_today by
\* exactly 1 over its value before the call and sets k's last_used to the
\* current time; it raises no other key's requests_today and changes no
\* other key's last_used; one that returns None raises no requests_today.
C8_SelectionAddsOneToPreviousCount ==
    [][ GetNextKey
        => \A k \in KeySet :
              IF ret' = k
              THEN /\ key_states'[k].requests_today = Req(k) + 1
                   /\ key_states'[k].last_used = clock
              ELSE /\ key_states'[k].requests_today <= Req(k)
                   /\ key_states'[k].last_used = key_states[k].last_used
      ]_vars

\* C8 amended: the count of the returned key becomes one more than its count
\* after the availability check, which is 0 when the call rolls the key over
\* to a new day and its previous count otherwise.
C8_SelectionAddsOneToCheckedCount ==
    [][ GetNextKey
        => \A k \in KeySet :
              IF ret' = k
              THEN /\ key_states'[k].requests_today = CountAfterRule1(k) + 1
                   /\ key_states'[k].last_used = clock
              ELSE /\ key_states'[k].requests_today <= Req(k)
                   /\ key_states'[k].last_used = key_states[k].last_used
      ]_vars

\* get_next_key returned a key that had reached its cap on an earlier day:
\* its count went from MAX_REQUESTS_PER_DAY to 1.
C8_Witness ==
    /\ ret \in KeySet
    /\ capped_day[ret] # NoTime
    /\ capped_day[ret] < Today
    /\ quota_day[ret] = NoTime
    /\ key_states[ret].requests_today = 1
    /\ key_states[ret].last_used = clock
    /\ key_states[ret].quota_reset = clock

-----------------------------------------------------------------------------
(* Properties of the rate limiter. *)

\* The grants up to the i-th that fall in the minute ending with it.
InWindow(i) == {j \in 1..i : grants[i].at - grants[j].at < Minute}

RECURSIVE TokensOf(_)
\* The tokens of a set of grants.
TokensOf(js) ==
    IF js = {} THEN 0
    ELSE LET j == CHOOSE x \in js : TRUE
         IN grants[j].tokens + TokensOf(js \ {j})

\* C9: at most requests_per_minute calls are granted within a minute; with
\* requests_per_minute = 1, two grants are at least a minute apart.
C9_RequestsWithinBudget ==
    /\ \A i \in 1..Len(grants) : Cardinality(InWindow(i)) <= requests_per_minute
    /\ requests_per_minute = 1
       => \A i, j \in 1..Len(grants) :
             i < j => grants[j].at - grants[i].at >= Minute

\* With requests_per_minute = 1, a second call waited and was granted one
\* minute after the first.
C9_Witness ==
    /\ requests_per_minute = 1
    /\ Len(grants) >= 2
    /\ grants[2].at = grants[1].at + Minute

\* C10 as claimed: the estimated_tokens of the calls granted within a minute
\* sum to at most tokens_per_minute.
C10_TokensWithinBudgetInAnyMinute ==
    \A i \in 1..Len(grants) : TokensOf(InWindow(i)) <= tokens_per_minute

\* The grants made since the token count was last reset.
SinceReset == {j \in 1..Len(grants) : grants[j].at >= last_reset}

\* C10 amended: the estimated_tokens of the calls granted since the last
\* reset of the token count sum to tokens_used, which is at most
\* tokens_per_minute; the calls granted within a minute sum to at most twice
\* tokens_per_minute.
C10_TokensWithinBudgetSinceReset ==
    /\ tokens_used = TokensOf(SinceReset)
    /\ tokens_used <= tokens_per_minute
    /\ \A i \in 1..Len(grants) : TokensOf(InWindow(i)) <= 2 * tokens_per_minute

\* After a reset, the calls granted within the last minute sum to more than
\* tokens_per_minute.
C10_Witness ==
    /\ last_reset > 0
    /\ Len(grants) >= 2
    /\ grants[Len(grants)].at >= last_reset
    /\ grants[1].at < last_reset
    /\ TokensOf(InWindow(Len(grants))) > tokens_per_minute

-----------------------------------------------------------------------------
(* Properties of the retried remote operations. *)

\* C11: one invocation of a retried remote operation calls the remote API at
\* most max_attempts times, whatever the pool and the failures.
C11_AtMostMaxAttemptsRemoteCalls == remote_calls <= max_attempts

\* generate_summary alone keeps to max_attempts remote calls.
SummaryAtMostMaxAttemptsRemoteCalls ==
    proc_op = "generate_summary" => remote_calls <= max_attempts

\* A step of the processor that issues a remote call after a failure.
Retries == remote_calls' = remote_calls + 1 /\ proc_pc = "calling"

\* On the processor's own operations: after a quota-exceeded failure on a
\* key, no later attempt of the operation uses that key on the same day.
ProcNeverRetriesQuotaFailedKey ==
    [][ Retries => <<current_api_key', Date(clock)>> \notin quota_failed' ]_vars

\* C12: when its remote call fails, a summarization call raises and never
\* returns a placeholder string (a transcription call returns a placeholder
\* and raises nothing).
C12_SummaryFailurePropagates ==
    \A c \in Callers : summary_result[c].kind # "placeholder"

\* The processor's own operations: a failed transcribe_audio returns (None)
\* and a failed generate_summary raises.
ProcFailureKinds ==
    /\ proc_op = "transcribe_audio" => outcome # "raised"
    /\ proc_op = "generate_summary" => outcome # "None"

-----------------------------------------------------------------------------
(* Properties of the long-video jobs. *)

\* A step in which job j sends a chunk to the remote API.
CallsRemote(j) == job[j].pc # "calling" /\ job'[j].pc = "calling"

\* C13: after a remote call of an operation fails with a quota-exceeded
\* error, no later attempt of that operation is made with the same credential
\* on the same day (transcribe_chunk has the one credential of the
\* LongVideoProcessor).
C13_NoRetryOnQuotaFailedKey ==
    [][ \A j \in Callers :
           CallsRemote(j) => job[j].quota_day # Date(clock) ]_vars

\* One transcribe_chunk call sends its chunk at most retries times.
ChunkAtMostRetriesRemoteCalls ==
    \A j \in Callers : job[j].remote_calls <= retries

Terminal == {"completed", "failed"}

\* C14: a job's status only moves from processing to completed or to failed
\* (a job whose audio is missing is created and failed in one step), and the
\* record of a completed or failed job is never changed again.
C14_TerminalJobsAreImmutable ==
    [][ \A j \in Callers :
           LET r == processing_results[j]
               r2 == processing_results'[j]
           IN /\ r.status \in Terminal => r2 = r
              /\ r.status = "processing"
                 => r2.status \in {"processing", "completed", "failed"}
              /\ r.status = "not_found"
                 => r2.status \in {"not_found", "processing", "failed"}
              /\ (r.status = "not_found" /\ r2.status = "failed")
                 => r2.transcripts = << >> ]_vars

\* Both jobs ended, one completed with several chunks and one failed, and
\* time has passed since.
C14_Witness ==
    /\ processing_results["t1"].status = "completed"
    /\ Len(processing_results["t1"].transcripts) >= 2
    /\ processing_results["t2"].status = "failed"
    /\ job["t2"].pc = "done"
    /\ clock > 0

Kinds(ts) == [n \in 1..Len(ts) |-> ts[n].kind]

\* C15: when the last attempt of a chunk fails, the error placeholder is
\* recorded at the chunk's position and the job goes on; a job is never failed
\* once a chunk was recorded; a job of 3 chunks whose second chunk failed
\* every attempt while the others succeeded ends completed, with the
\* placeholder second in transcripts and in final_transcript, and /result
\* reports chunks_processed == 3.
C15_ChunkFailureDoesNotAbortJob ==
    /\ [][ \A j \in Callers, m \in JobMsgIds :
              (ChunkFails(j, m) /\ job[j].attempt = retries - 1)
              => /\ processing_results'[j].status # "failed"
                 /\ Len(processing_results'[j].transcripts) = job[j].i + 1
                 /\ processing_results'[j].transcripts[job[j].i + 1].kind = "error"
                 /\ \A n \in 1..job[j].i :
                       processing_results'[j].transcripts[n]
                          = processing_results[j].transcripts[n] ]_vars
    /\ [](\A j \in Callers :
             LET r == processing_results[j] IN
             /\ r.status = "failed" => r.transcripts = << >>
             /\ (job[j].pc = "done" /\ Kinds(r.transcripts) = <<"text", "error", "text">>)
                => /\ r.status = "completed"
                   /\ Len(r.final_transcript) = 5
                   /\ r.final_transcript[3] = r.transcripts[2]
                   /\ GetProcessingResult(j).code = 200
                   /\ GetProcessingResult(j).chunks_processed = 3)

\* A job of 3 chunks completed with the placeholder in second place.
C15_Witness ==
    /\ job["t1"].pc = "done"
    /\ Len(job["t1"].chunks) = 3
    /\ Kinds(processing_results["t1"].transcripts) = <<"text", "error", "text">>
    /\ processing_results["t1"].status = "completed"

\* C16: a completed job of K chunks has K transcripts, progress 100 and a
\* final_transcript that is the transcripts in chunk order with one space
\* between neighbours; each step that records a chunk appends the result of
\* the chunk the loop is at.
C16_FinalTranscriptIsJoinInChunkOrder ==
    /\ [](\A j \in Callers :
             LET r == processing_results[j]
                 K == Len(job[j].chunks)
             IN r.status = "completed"
                => /\ K >= 1
                   /\ Len(r.transcripts) = K
                   /\ r.progress = 100
                   /\ Len(r.final_transcript) = 2 * K - 1
                   /\ \A n \in 1..K : r.final_transcript[2 * n - 1] = r.transcripts[n]
                   /\ \A n \in 1..(K - 1) : r.final_transcript[2 * n] = Space)
    /\ [][ \A j \in Callers :
              ChunkTranscribed(j)
              => processing_results'[j].transcripts
                    = Append(processing_results[j].transcripts,
                             TextOf(job[j].audio_data)) ]_vars
    /\ [](\A j \in Callers :
             processing_results[j].status = "processing"
             => Len(processing_results[j].transcripts) = job[j].i)

\* A job of 3 chunks completed.
C16_Witness ==
    /\ processing_results["t1"].status = "completed"
    /\ Len(processing_results["t1"].transcripts) = 3
    /\ Len(processing_results["t1"].final_transcript) = 5

\* C17: progress is floor(len(transcripts) * 100 / total_chunks) in every
\* state, within 0..100, never decreases, and rises with every chunk
\* recorded, transcribed or not.
C17_ProgressFollowsChunks ==
    /\ [](\A j \in Callers :
             LET r == processing_results[j]
                 total == Len(job[j].chunks)
             IN /\ r.progress \in 0..100
                /\ total = 0 => r.progress = 0 /\ r.transcripts = << >>
                /\ total > 0
                   => /\ r.progress * total <= Len(r.transcripts) * 100
                      /\ Len(r.transcripts) * 100 < (r.progress + 1) * total)
    /\ [][ \A j \in Callers :
              /\ processing_results'[j].progress >= processing_results[j].progress
              /\ Len(processing_results'[j].transcripts)
                    > Len(processing_results[j].transcripts)
                 => processing_results'[j].progress
                       > processing_results[j].progress ]_vars

\* A job of 3 chunks stands at 66 after its second chunk degraded to a
\* placeholder.
C17_Witness ==
    /\ processing_results["t1"].status = "processing"
    /\ processing_results["t1"].progress = 66
    /\ Kinds(processing_results["t1"].transcripts) = <<"text", "error">>

\* C18: the audio of an accepted request exists until the request's job is
\* completed or failed.
C18_AudioKeptUntilJobEnds ==
    \A j \in Callers :
        job[j].pc \notin {"none", "done"} => job[j].audio_path \in DOMAIN files

\* The chunk files split_audio wrote for job j.
ChunkPathsOf(j) ==
    {job[j].chunks[n].path : n \in 1..Len(job[j].chunks)} \ {job[j].audio_path}

\* C19: two jobs never have a chunk path in common.
C19_ChunkPathsAreUnique ==
    \A j, k \in Callers : j # k => ChunkPathsOf(j) \cap ChunkPathsOf(k) = {}

\* C20: split_audio returns the original path alone, and writes no file, for
\* audio of at most chunk_duration; for longer audio it returns
\* ceil(duration / chunk_duration) chunks that follow one another from 0 to
\* the end of the audio, each chunk_duration long but for a shorter last one,
\* each written to its file.
C20_SplitAudioPartitionsTheAudio ==
    [][ \A j \in Callers :
           (StartJob(j) /\ job[j].audio_path \in DOMAIN files)
           => LET len == files[job[j].audio_path].to
                  cs == job'[j].chunks
                  n == Len(cs)
              IN IF len <= chunk_duration * MsPerSecond
                 THEN /\ n = 1
                      /\ cs[1].path = job[j].audio_path
                      /\ DOMAIN files' = DOMAIN files
                 ELSE /\ (n - 1) * chunk_duration * MsPerSecond < len
                      /\ len <= n * chunk_duration * MsPerSecond
                      /\ cs[1].from = 0
                      /\ cs[n].to = len
                      /\ \A k \in 1..(n - 1) :
                            /\ cs[k + 1].from = cs[k].to
                            /\ cs[k].to - cs[k].from = chunk_duration * MsPerSecond
                      /\ cs[n].to - cs[n].from \in 1..(chunk_duration * MsPerSecond)
                      /\ \A k \in 1..n :
                            /\ cs[k].path # job[j].audio_path
                            /\ cs[k].path \in DOMAIN files'
                            /\ files'[cs[k].path] = Segment(j, cs[k].from, cs[k].to)
                      /\ \A k, l \in 1..n : k # l => cs[k].path # cs[l].path
      ]_vars

\* An audio was split into 3 chunks, the last one shorter.
C20_Witness ==
    /\ Len(job["t1"].chunks) = 3
    /\ job["t1"].chunks[3].to - job["t1"].chunks[3].from < chunk_duration * MsPerSecond
    /\ job["t1"].chunks[3].path \in DOMAIN files

\* C21: when an exception reaches the except block of a job (the audio is
\* missing when split_audio opens it), the job ends failed with the message
\* of the exception as its error; a step that fails a job leaves the
\* transcripts and the progress recorded so far as they were.
C21_EscapedExceptionFailsJob ==
    /\ [][ \A j \in Callers :
              (StartJob(j) /\ job[j].audio_path \notin DOMAIN files)
              => /\ processing_results'[j].status = "failed"
                 /\ processing_results'[j].error = FileNotFound
                 /\ job'[j].pc = "done" ]_vars
    /\ [][ \A j \in Callers :
              LET r == processing_results[j]
                  r2 == processing_results'[j]
              IN (r.status # "failed" /\ r2.status = "failed")
                 => /\ r2.error # NoError
                    /\ r2.transcripts = r.transcripts
                    /\ r2.progress = r.progress
                    /\ r2.final_transcript = NoFinal ]_vars

\* A job failed at split_audio, with the error of the missing file.
C21_Witness ==
    /\ processing_results["t1"].status = "failed"
    /\ processing_results["t1"].error = FileNotFound
    /\ job["t1"].pc = "done"
    /\ processing_results["t2"].status = "processing"

-----------------------------------------------------------------------------
(* Properties of the status and result lookups. *)

\* The request id has a record in processing_results.
Known(request_id) == processing_results[request_id] # NotFound

\* C22: get_processing_status returns the record of a known request id as it
\* is, and a record with status not_found for an unknown one; a lookup adds
\* no record and changes none; GET /status answers 404 when the id is
\* unknown, the record when it is known, and nothing else.
C22_StatusLookupIsTotalAndPure ==
    /\ [](\A request_id \in Callers :
             IF Known(request_id)
             THEN GetProcessingStatus(request_id) = processing_results[request_id]
             ELSE GetProcessingStatus(request_id)
                     = [status |-> "not_found", progress |-> 0, error |-> NoError])
    /\ [][ response' # response
           => /\ processing_results' = processing_results
              /\ job' = job ]_vars
    /\ [](response.route = "status"
          => /\ response.answer.code \in {200, 404}
             /\ response.answer.code = 200
                => response.answer.body.status \in {"processing", "completed", "failed"})
    /\ [][ (response' # response /\ response'.route = "status")
           => LET id == response'.request_id IN
              /\ response'.answer.code = 404 <=> ~Known(id)
              /\ Known(id) => response'.answer.body = processing_results[id] ]_vars

\* GET /status answered 404 for the id of no job while a job with a chunk
\* recorded was running.
C22_Witness ==
    /\ response.route = "status"
    /\ response.request_id = "t2"
    /\ response.answer.code = 404
    /\ processing_results["t1"].status = "processing"
    /\ Len(processing_results["t1"].transcripts) >= 1
    /\ ~Known("t2")

\* GET /status answered with the record of a failed job.
StatusOfFailedJobAnswered ==
    /\ response.route = "status"
    /\ response.request_id = "t1"
    /\ response.answer.code = 200
    /\ response.answer.body = processing_results["t1"]
    /\ processing_results["t1"].status = "failed"

\* C23: GET /result answers with a transcript only for a completed job, and
\* then with the job's final_transcript and the number of its chunks; it
\* answers 102 and nothing else for a job in processing, 500 with the stored
\* error for a failed job, and 404 for an unknown id.
C23_ResultOnlyWhenCompleted ==
    [][ (response' # response /\ response'.route = "result")
        => LET id == response'.request_id
               r == processing_results[id]
               a == response'.answer
           IN /\ a.code = 200 <=> r.status = "completed"
              /\ r.status = "completed"
                 => /\ a.transcript = r.final_transcript
                    /\ a.chunks_processed = Len(job[id].chunks)
                    /\ a.status = "completed"
              /\ r.status = "processing" => a = [code |-> 102]
              /\ r.status = "failed" => a = [code |-> 500, detail |-> r.error]
              /\ r.status = "not_found" => a = [code |-> 404] ]_vars

\* GET /result answered with the transcript of a completed job of 3 chunks,
\* one of them a placeholder.
C23_Witness ==
    /\ response.route = "result"
    /\ response.request_id = "t1"
    /\ response.answer.code = 200
    /\ response.answer.chunks_processed = 3
    /\ response.answer.transcript = processing_results["t1"].final_transcript
    /\ \E n \in 1..3 : processing_results["t1"].transcripts[n].kind = "error"

\* GET /result answered 102 for a job with a chunk recorded.
ResultOfRunningJobAnswered ==
    /\ response.route = "result"
    /\ response.answer.code = 102
    /\ processing_results["t1"].status = "processing"
    /\ Len(processing_results["t1"].transcripts) >= 1


\* C24: in every state, a record has a final_transcript exactly when its
\* status is completed and an error exactly when its status is failed; a
\* completed job has one transcript per chunk and progress 100, and what
\* get_processing_status returns for a job is that record.
C24_RecordFieldsFollowStatus ==
    \A j \in Callers :
        LET r == processing_results[j] IN
        /\ r.final_transcript # NoFinal <=> r.status = "completed"
        /\ r.error # NoError <=> r.status = "failed"
        /\ r.status = "completed"
           => /\ Len(r.transcripts) = Len(job[j].chunks)
              /\ r.progress = 100
        /\ Known(j) => GetProcessingStatus(j) = r

\* One job completed with its 2 chunks, the other failed.
C24_Witness ==
    /\ processing_results["t1"].status = "completed"
    /\ Len(job["t1"].chunks) = 2
    /\ processing_results["t1"].final_transcript # NoFinal
    /\ processing_results["t2"].status = "failed"
    /\ processing_results["t2"].error # NoError


\* The chunks of a job go one after the other: a chunk is sent to the remote
\* API only when every chunk before it is recorded, and a job's transcripts
\* change only by a step of that job, which appends the result of its call.
ChunksAreSequential ==
    /\ [][ \A j \in Callers :
              CallsRemote(j)
              => /\ processing_results[j].status = "processing"
                 /\ Len(processing_results[j].transcripts) = job[j].i
                 /\ job[j].i < Len(job[j].chunks)
                 /\ job'[j].i = job[j].i ]_vars
    /\ [][ \A j \in Callers :
              processing_results'[j].transcripts # processing_results[j].transcripts
              => /\ job[j].pc \in {"ready", "waiting", "calling"}
                 /\ \A k \in Callers \ {j} : job'[k] = job[k]
                 /\ Len(processing_results'[j].transcripts) = job[j].i + 1
                 /\ SubSeq(processing_results'[j].transcripts, 1, job[j].i)
                       = processing_results[j].transcripts
                 /\ LET t == processing_results'[j].transcripts[job[j].i + 1] IN
                    \/ t.kind = "error"
                    \/ job[j].pc = "calling" /\ t = TextOf(job[j].audio_data)
     ]_vars

\* Every transcript in a job's record is of that job's own chunk at that
\* place, or a placeholder.
TranscriptsAreOwn ==
    \A j \in Callers :
        \A n \in 1..Len(processing_results[j].transcripts) :
            LET t == processing_results[j].transcripts[n] IN
            t.kind = "text"
            => t.seg = Segment(j, job[j].chunks[n].from, job[j].chunks[n].to)

\* C25: within a job the chunks are processed one after the other, the
\* remote call for a chunk starting only when the chunk before it is
\* recorded, under every interleaving with another job, and nothing of
\* another job is appended to the job's record.
C25_SequentialChunksAndOwnResults ==
    ChunksAreSequential /\ []TranscriptsAreOwn


-----------------------------------------------------------------------------
(* Properties of the rate limiter under concurrent callers. *)

\* The tasks asleep in wait_for_quota.
Sleeping == {c \in Callers : waiter[c].pc = "sleeping"}

\* A call is granted in this step.
Grants == Len(grants') = Len(grants) + 1

\* C26: under every interleaving of the callers at their awaits,
\* requests_queue never holds more than requests_per_minute timestamps and
\* tokens_used never exceeds tokens_per_minute; a step grants at most one
\* call, and tests the capacity and records the grant (timestamp and tokens)
\* in that one step; a task that polls when the queue is full stays asleep,
\* so of the tasks waiting for one freed slot only one is granted.
C26_LimiterSafeUnderConcurrentWaiters ==
    /\ [](/\ Len(requests_queue) <= requests_per_minute
          /\ tokens_used <= tokens_per_minute)
    /\ [][ /\ Len(grants') \in {Len(grants), Len(grants) + 1}
           /\ Grants
              => /\ Len(requests_queue') <= requests_per_minute
                 /\ requests_queue'[Len(requests_queue')] = clock
                 /\ grants'[Len(grants')].at = clock
                 /\ tokens_used' >= grants'[Len(grants')].tokens
                 /\ \E c \in Callers :
                       /\ waiter'[c] = Idle
                       /\ \A d \in Callers \ {c} : waiter'[d] = waiter[d]
           /\ \A d \in Callers :
                 (Wake(d) /\ Len(SelectSeq(requests_queue,
                                           LAMBDA t : clock - t < Minute))
                                >= requests_per_minute)
                 => /\ waiter'[d].pc = "sleeping"
                    /\ grants' = grants ]_vars

\* With one request a minute, two tasks waited for the slot of the first
\* grant; when it was free one of them was granted and the other, polling
\* in the same second, sleeps on.
C26_Witness ==
    /\ requests_per_minute = 1
    /\ Len(grants) = 2
    /\ grants[2].at = grants[1].at + Minute
    /\ clock = grants[2].at
    /\ \E c \in Sleeping : waiter[c].wake_at = clock + 1
    /\ tokens_used + MaxEstimatedTokens <= tokens_per_minute


\* A step in which task c sends its summary prompt to the remote API.
SummaryCallsRemote(c) == summary_pc[c] # "calling" /\ summary_pc'[c] = "calling"

\* The step records a grant of wait_for_quota, made now to task c for the
\* tokens of one call.
GrantedNow(c) ==
    /\ Grants
    /\ grants'[Len(grants')] = [at |-> clock, tokens |-> estimated_tokens_per_call]
    /\ waiter[c].pc \in {"idle", "sleeping"}
    /\ waiter'[c] = Idle

\* C27: every step that sends a chunk (a first attempt or a retry) or a
\* summary prompt to the remote API is a step in which the task's own
\* wait_for_quota call returned with a grant; a task is in a remote call
\* only with no wait_for_quota call of its own pending.
C27_RemoteCallsFollowTheirGrant ==
    /\ [][ \A j \in Callers :
              /\ CallsRemote(j) => GrantedNow(j)
              /\ SummaryCallsRemote(j) => GrantedNow(j) ]_vars
    /\ [](\A j \in Callers :
             (job[j].pc = "calling" \/ summary_pc[j] = "calling")
             => waiter[j] = Idle)
    /\ [](\A j \in Callers : job[j].remote_calls <= Len(grants))

\* A retry of a chunk and a summary call are in their remote calls, each
\* after a grant: the chunk's first attempt, its retry and the summary were
\* granted.
C27_Witness ==
    /\ job["t1"].pc = "calling"
    /\ job["t1"].attempt >= 1
    /\ summary_pc["t2"] = "calling"
    /\ Len(grants) = 3


\* Task c waits in wait_for_quota for tokens the budget can hold.
WaitsForQuota(c) ==
    /\ waiter[c].pc = "sleeping"
    /\ waiter[c].estimated_tokens <= tokens_per_minute

\* A call was granted in the current second.
GrantedThisSecond == \E n \in 1..Len(grants) : grants[n].at = clock

\* C28: while time keeps advancing, every wait_for_quota call for at most
\* tokens_per_minute tokens returns, whatever the other callers do.
C28_WaitForQuotaReturns ==
    \A c \in Callers : WaitsForQuota(c) ~> (waiter[c].pc = "idle")

\* C28, amended: while time keeps advancing, a wait_for_quota call for at
\* most tokens_per_minute tokens returns unless another call is granted
\* first; a poll leaves the caller asleep only when a call was granted less
\* than a minute before it.
C28_WaitForQuotaReturnsUnlessOvertaken ==
    /\ \A c \in Callers :
          (WaitsForQuota(c) /\ ~GrantedThisSecond)
             ~> (waiter[c].pc = "idle" \/ GrantedThisSecond)
    /\ [][ \A c \in Callers :
              (Wake(c) /\ WaitsForQuota(c) /\ waiter'[c].pc = "sleeping")
              => \E n \in 1..Len(grants) : clock - grants[n].at < Minute ]_vars

\* A task waits for the one slot of the minute, taken a second ago, with
\* tokens to spare.
C28_Witness ==
    /\ requests_per_minute = 1
    /\ WaitsForQuota("t1")
    /\ waiter["t2"].pc = "idle"
    /\ ~GrantedThisSecond
    /\ Len(requests_queue) = 1
    /\ tokens_used + waiter["t1"].estimated_tokens <= tokens_per_minute


-----------------------------------------------------------------------------
(* Properties of the credential pool across requests. *)

\* Key k reached its daily cap or was locked out today, and the pool that
\* served the requests so far does not give it out now.
SpentToday(k) ==
    /\ capped_day[k] = Today
    /\ key_states[k].requests_today >= MAX_REQUESTS_PER_DAY
    /\ ~IsKeyAvailable(key_states[k], clock)

\* C29: the state of the credentials lives as long as the process: when a
\* later request of the same day asks for a key, the counts of the earlier
\* requests are still there, and a key that reached its daily cap or was
\* locked out while an earlier request was served is not selected.
C29_CredentialStateOutlivesRequests ==
    [][ NewTikTokProcessor
        => \A k \in KeySet :
              /\ SpentToday(k) => ret' # k
              /\ (key_states[k].quota_reset # NoTime
                  /\ Date(key_states[k].quota_reset) = Today)
                 => key_states'[k].requests_today >= key_states[k].requests_today
      ]_vars


-----------------------------------------------------------------------------
(* Properties of the long-video jobs and the summary. *)

\* C30: a job is completed only after the task that runs it called
\* generate_summary, once its last chunk was recorded, and the call ended.
C30_CompletedJobsAreSummarized ==
    \A j \in Callers :
        processing_results[j].status = "completed"
        => /\ summary_pc[j] = "idle"
           /\ summary_result[j] # NoResult


-----------------------------------------------------------------------------
(* Further properties of the credential pool. *)

\* C31: in every state of the pool, after any get_next_key, mark_key_error
\* and get_key_status calls and any passing of time, every key has
\* 0 <= requests_today <= MAX_REQUESTS_PER_DAY and error_count >= 0.
C31_CountersStayInRange ==
    \A k \in KeySet :
        /\ key_states[k].requests_today >= 0
        /\ key_states[k].requests_today <= MAX_REQUESTS_PER_DAY
        /\ key_states[k].error_count >= 0

\* One key was selected up to its cap, the other was set to the cap by a
\* quota error, on a later day than the pool was made.
C31_Witness ==
    /\ Len(api_keys) = 2
    /\ Req("k1") = MAX_REQUESTS_PER_DAY
    /\ key_states["k1"].error_count = 0
    /\ Req("k2") = MAX_REQUESTS_PER_DAY
    /\ quota_day["k2"] = Today
    /\ Today > 0


-----------------------------------------------------------------------------
(* Further properties of the retried remote operations. *)

\* The error counts a failed attempt with message m leaves when it is
\* reported once against the key in use, get_next_key being called after
\* the report or not.
CountsAfterOneReport(m, takes_next_key) ==
    LET one == [key_states EXCEPT ![current_api_key] = MarkedState(@, m, clock)]
        left == IF takes_next_key THEN AfterGetNextKey(one, clock) ELSE one
    IN [k \in KeySet |-> left[k].error_count]

\* A failed attempt of transcribe_audio adds exactly 1 to the error_count of
\* the key in use and nothing to any other key.
TranscribeFailureReportedOnce ==
    [][ \A m \in MsgIds :
           TranscribeFails(m)
           => [k \in KeySet |-> key_states'[k].error_count]
                 = CountsAfterOneReport(m, TRUE) ]_vars

\* C32: a failed attempt of transcribe_audio or of generate_summary adds
\* exactly 1 to the error_count of the key that was in use during the
\* attempt, and nothing to the error_count of any other key.
C32_FailedAttemptReportedOnce ==
    [][ \A m \in MsgIds :
           /\ TranscribeFails(m)
              => [k \in KeySet |-> key_states'[k].error_count]
                    = CountsAfterOneReport(m, TRUE)
           /\ SummarizeFails(m)
              => [k \in KeySet |-> key_states'[k].error_count]
                    = CountsAfterOneReport(m, attempt < max_attempts - 1) ]_vars


-----------------------------------------------------------------------------
(* The recursion of transcribe_audio. *)

\* The remote calls the running transcribe_audio made on the day of its
\* latest one.
AttemptsToday == IF proc_op = "transcribe_audio" THEN day_calls.n ELSE 0

\* The selections get_next_key can make in one day on this pool.
DailySelections == Len(api_keys) * MAX_REQUESTS_PER_DAY

\* transcribe_audio does not let an exception of the remote call out.
TranscribeNeverRaises == proc_op = "transcribe_audio" => outcome # "raised"

-----------------------------------------------------------------------------
(* The end of the long-video jobs. *)

\* The job of request j is under way / has ended.
Processing(j) == processing_results[j].status = "processing"
Ended(j) == processing_results[j].status \in {"completed", "failed"}

\* C34: while every remote call returns or raises and time keeps advancing,
\* every started long job leaves status processing for completed or failed,
\* for any number of chunks and any pattern of remote failures.
C34_StartedJobEnds == \A j \in Callers : Processing(j) ~> Ended(j)

\* C34, amended: the same, unless the other callers of the rate limiter are
\* granted calls again and again for ever; and a job that has ended stays
\* ended.
C34_StartedJobEndsUnlessOvertaken ==
    /\ (<>[](summary_pc["t2"] # "calling"))
          => (\A j \in Callers : Processing(j) ~> Ended(j))
    /\ [][ \A j \in Callers : Ended(j) => Ended(j)' ]_vars

\* The job ended after its three chunks, one of them given up after three
\* failed attempts, having waited for its quota behind the other task.
C34_Witness ==
    /\ Ended("t1")
    /\ Len(job["t1"].chunks) = 3
    /\ Len(processing_results["t1"].transcripts) = 3
    /\ \E n \in 1..3 : processing_results["t1"].transcripts[n].kind = "error"
    /\ Len(grants) > 0


-----------------------------------------------------------------------------
(* The job registry and the event loop. *)

\* The handler of GET /status/{request_id} runs and answers 404.
AnswersNotFound == RunsStatusHandler /\ response'.answer.code = 404

\* C35: once POST /process-long has returned a request id, no status lookup
\* for that id is answered 404: the record exists before any other request
\* handler can look into the registry.
C35_ReturnedIdIsNeverNotFound ==
    [][ AnswersNotFound => Head(ready).id \notin told ]_vars

\* C35, amended: no status lookup requested after POST /process-long
\* returned the id is answered 404: the task's first step, which makes the
\* record, is ahead of its handler in the event loop's queue.  (A handler
\* queued before the POST returned runs before the record exists.)
C35_LookupAfterReturnIsNeverNotFound ==
    [][ AnswersNotFound => ~Head(ready).after ]_vars

\* A lookup requested after the POST returned, answered with the record
\* while the id of the other job is not known.
C35_Witness ==
    /\ response.route = "status"
    /\ response.request_id = "t1"
    /\ response.answer.code = 200
    /\ "t1" \in told
    /\ "t2" \notin told
    /\ ready # << >>
    /\ Head(ready).after


-----------------------------------------------------------------------------
(* The spread of the load over the pool. *)

\* mark_key_error was never called for any key.
NoErrorReported == \A k \in KeySet : key_states[k].last_error = NoTime

\* The requests_today of any two keys differ by at most 1.
SpreadEvenly ==
    \A k1, k2 \in KeySet : Req(k1) - Req(k2) <= 1

\* C36: while no error is reported, get_next_key spreads the load evenly:
\* the keys all start the day unused, every call selects a key no other
\* key is below, and the requests_today of any two keys differ by at most 1.
C36_LoadSpreadEvenly ==
    /\ [](NoErrorReported => SpreadEvenly)
    /\ [][ (GetNextKey /\ NoErrorReported /\ ret' # None)
           => \A k \in KeySet :
                 key_states'[ret'].requests_today - 1
                    <= key_states'[k].requests_today ]_vars

\* Two keys on the second day, no error so far: three selections today,
\* the first key one ahead.
C36_Witness ==
    /\ NoErrorReported
    /\ Len(api_keys) = 2
    /\ Today > 0
    /\ Date(key_states["k1"].quota_reset) = Today
    /\ Req("k1") = 2
    /\ Req("k2") = 1
    /\ ret = "k1"


-----------------------------------------------------------------------------
(* The chunk files of a job. *)

\* The paths the chunk loop of job j was handed.
ChunkPaths(j) == {job[j].chunks[n].path : n \in 1..Len(job[j].chunks)}

Completed(j) == processing_results[j].status = "completed"

\* A step in which job j records the transcript or the placeholder of a
\* chunk.
RecordsChunk(j) ==
    /\ processing_results[j].status = "processing"
    /\ Len(processing_results'[j].transcripts)
          = Len(processing_results[j].transcripts) + 1

\* No file at a chunk path of job j holds audio of job j.
NoChunkFileRemains(j) ==
    \A p \in ChunkPaths(j) : p \in DOMAIN files => files[p].owner # j

\* No file at all lies at a chunk path of job j.
NoChunkPathRemains(j) == \A p \in ChunkPaths(j) : p \notin DOMAIN files

\* C37: every chunk path handed to the chunk loop is deleted after its
\* transcription attempt, whether it gave a transcript or a placeholder, so
\* none of the chunk files of a completed job remains; when the audio was
\* not split, the one path is the original audio, and it is deleted.
C37_ChunkFilesDeleted ==
    /\ [][ \A j \in Callers :
              RecordsChunk(j)
              => job[j].chunks[job[j].i + 1].path \notin DOMAIN files' ]_vars
    /\ [](\A j \in Callers : Completed(j) => NoChunkFileRemains(j))
    /\ [](\A j \in Callers :
            (Completed(j) /\ Len(job[j].chunks) = 1)
            => /\ ChunkPaths(j) = {AudioPath(j)}
               /\ AudioPath(j) \notin DOMAIN files)

\* The same by path alone, whoever wrote the file.
CompletedJobLeavesNoPath ==
    \A j \in Callers : Completed(j) => NoChunkPathRemains(j)

\* Once split, the original audio is left where it was.
SplitAudioIsKept ==
    \A j \in Callers :
        (Completed(j) /\ Len(job[j].chunks) > 1) => AudioPath(j) \in DOMAIN files

\* One job completed with two chunks, the second a placeholder, and another
\* completed with its unsplit audio: no file is left but the first job's
\* original audio.
C37_Witness ==
    /\ Completed("t1")
    /\ Len(job["t1"].chunks) = 2
    /\ processing_results["t1"].transcripts[2].kind = "error"
    /\ Completed("t2")
    /\ Len(job["t2"].chunks) = 1
    /\ DOMAIN files = {AudioPath("t1")}

=============================================================================
